---- MODULE Spec2Model ----
(***************************************************************************)
(* A model of oled-rpi-i2c-bus-async: the BaseOLED drawing core, the       *)
(* SSD1306 and SH1106 drivers, the Oled facade and the I2C bus they talk   *)
(* to.  One display instance.  Every await of the JavaScript source is a   *)
(* step boundary: a task (one call of an async method) runs from one await *)
(* to the next in one action.                                              *)
(***************************************************************************)
EXTENDS Integers, Sequences, FiniteSets, TLC

VARIABLES
    driver,      \* opts.driver: "SSD1306" or "SH1106"
    WIDTH,       \* this.WIDTH
    HEIGHT,      \* this.HEIGHT
    buffer,      \* this.buffer: byte index -> 0..255
    dirtyBytes,  \* this.dirtyBytes: the array the property currently refers to
    cursor,      \* <<this.cursor_x, this.cursor_y>>
    task,        \* the async calls in flight: task id -> record
    bus,         \* the bus transactions in the order they were submitted
    pending,     \* the transactions outstanding, oldest first
    micro,       \* the microtask queue: ids of calls to resume, oldest first
    ram,         \* the controller's display RAM: byte index -> 0..255
    dev,         \* the controller's addressing registers
    env,         \* what the environment may still do (failures, busy answers)
    anim,        \* resourceTracker and the state _drawPseudo keeps between frames
    ghost        \* history kept for the properties only

vars ==
    <<driver, WIDTH, HEIGHT, buffer, dirtyBytes, cursor, task, bus, pending, micro, ram, dev,
      env, anim, ghost>>

-----------------------------------------------------------------------------
(* Bounds of the model *)

\* Task ids of calls made by the application (task 0 is the constructor's _initialise).
MaxTasks == 2
\* Bus transactions the environment may fail.
MaxFail == 1
\* Busy answers the device may give to one _waitUntilReady.
MaxBusy == 1
\* Calls the application makes in one behaviour.
MaxCalls == 2
\* Animated image() calls in one behaviour.
MaxImages == 2
\* Interval callbacks of the animations that bounce.
MaxFrames == 5

-----------------------------------------------------------------------------
(* Bytes and bits *)

Pow2(k) == 2 ^ k

BitOf(b, k) == (b \div Pow2(k)) % 2

\* buffer[byte] |= pageShift, pageShift = 1 << k
OrBit(b, k) == IF BitOf(b, k) = 1 THEN b ELSE b + Pow2(k)

\* buffer[byte] &= ~pageShift
AndNotBit(b, k) == IF BitOf(b, k) = 1 THEN b - Pow2(k) ELSE b

\* x & 0x7f, x & 0x0f, x >>> 4 on the small non-negative values they are applied to
And7f(x) == x % 128
And0f(x) == x % 16
Shr4(x) == x \div 16

SeqToSet(s) == {s[i] : i \in DOMAIN s}

Contains(s, e) == \E i \in DOMAIN s : s[i] = e

BufLen == (WIDTH * HEIGHT) \div 8

MAX_PAGE_COUNT == HEIGHT \div 8

-----------------------------------------------------------------------------
(* Colours: JavaScript values the callers pass, named by their source text *)

Colors == {"0", "1", "255", "true", "false", "BLACK", "WHITE"}

\* !color
Falsy(c) == c \in {"0", "false"}

\* a test that knows the falsy values only
OnlyFalsyIsOff(c) == Falsy(c)

\* color === 'BLACK' || !color
IsOff(c) == c = "BLACK" \/ Falsy(c)

\* c is the sequence of arguments a call passes: its n-th parameter is undefined when
\* the call passes fewer than n arguments
Given(c, n) == n <= Len(c)

\* `if (sync)` on a parameter without a default: undefined is falsy
IfSync(c, n) == Given(c, n) /\ c[n]

\* a parameter declared as `sync = true`
DefaultTrue(c, n) == Given(c, n) => c[n]

-----------------------------------------------------------------------------
(* BaseOLED: drawing into the buffer *)

\* a drawPixel that wraps coordinates round the display rather than ignoring them
DrawPixelWrapped(st, el) ==
    LET x == el[1] % WIDTH
        y == el[2] % HEIGHT
        byte == x + WIDTH * (y \div 8)
        nb == IF IsOff(el[3]) THEN AndNotBit(st.buffer[byte], y % 8)
                              ELSE OrBit(st.buffer[byte], y % 8)
    IN  [buffer |-> [st.buffer EXCEPT ![byte] = nb],
         dirtyBytes |-> IF Contains(st.dirtyBytes, byte) THEN st.dirtyBytes
                        ELSE Append(st.dirtyBytes, byte)]

\* One element of drawPixel's forEach: st = [buffer, dirtyBytes], el = <<x, y, color>>
DrawPixelOne(st, el) ==
    LET x == el[1]
        y == el[2]
        color == el[3]
    IN  IF x < 0 \/ x >= WIDTH \/ y < 0 \/ y >= HEIGHT
        THEN st
        ELSE LET page == y \div 8
                 byte == x + WIDTH * page
                 k == y % 8
                 nb == IF IsOff(color) THEN AndNotBit(st.buffer[byte], k)
                                       ELSE OrBit(st.buffer[byte], k)
             IN  [buffer |-> [st.buffer EXCEPT ![byte] = nb],
                  dirtyBytes |-> IF Contains(st.dirtyBytes, byte)
                                 THEN st.dirtyBytes
                                 ELSE Append(st.dirtyBytes, byte)]

RECURSIVE DrawPixels(_, _)
DrawPixels(st, pixels) ==
    IF pixels = <<>> THEN st
    ELSE DrawPixels(DrawPixelOne(st, Head(pixels)), Tail(pixels))

\* clearDisplay's synchronous part: buffer.fill(0x00), dirtyBytes = [0 .. length-1]
ClearMem ==
    [buffer |-> [i \in 0..(BufLen - 1) |-> 0],
     dirtyBytes |-> [i \in 1..BufLen |-> i - 1]]

\* if (pixels[i]) in drawBitmap: any value but 0 and false counts as set
Truthy(c) == ~Falsy(c)

AddOnce(s, e) == IF Contains(s, e) THEN s ELSE Append(s, e)

\* a variant that reads the array column by column
DrawBitmapByColumn(st, pixels, i) ==
    LET x == i \div HEIGHT
        y == i % HEIGHT
    IN  IF x < 0 \/ x >= WIDTH \/ y < 0 \/ y >= HEIGHT
        THEN [added |-> <<>>, buffer |-> st.buffer]
        ELSE LET page == y \div 8
                 byte == x + WIDTH * page
                 k == y % 8
                 nb == IF Truthy(pixels[i + 1]) THEN OrBit(st.buffer[byte], k)
                                                ELSE AndNotBit(st.buffer[byte], k)
             IN  [added |-> IF Contains(st.dirtySet, byte) THEN <<>> ELSE <<byte>>,
                  buffer |-> [st.buffer EXCEPT ![byte] = nb]]

\* drawBitmap's loop body for index i (0-based): st = [buffer, dirtySet]; the result is
\* the buffer and the indices the body added to the set
DrawBitmapOne(st, pixels, i) ==
    LET x == i % WIDTH
        y == i \div WIDTH
    IN  IF x < 0 \/ x >= WIDTH \/ y < 0 \/ y >= HEIGHT
        THEN [added |-> <<>>, buffer |-> st.buffer]
        ELSE LET page == y \div 8
                 byte == x + WIDTH * page
                 k == y % 8
                 nb == IF Truthy(pixels[i + 1]) THEN OrBit(st.buffer[byte], k)
                                                ELSE AndNotBit(st.buffer[byte], k)
             IN  [added |-> IF Contains(st.dirtySet, byte) THEN <<>> ELSE <<byte>>,
                  buffer |-> [st.buffer EXCEPT ![byte] = nb]]

\* the loop for the indices lo .. hi - 1, in order: the first half, then the second
RECURSIVE DrawBitmapRun(_, _, _, _)
DrawBitmapRun(st, pixels, lo, hi) ==
    IF hi <= lo THEN [added |-> <<>>, buffer |-> st.buffer]
    ELSE IF hi = lo + 1 THEN DrawBitmapOne(st, pixels, lo)
    ELSE LET mid == (lo + hi) \div 2
             a == DrawBitmapRun(st, pixels, lo, mid)
             b == DrawBitmapRun([buffer |-> a.buffer, dirtySet |-> st.dirtySet \o a.added],
                                pixels, mid, hi)
         IN  [added |-> a.added \o b.added, buffer |-> b.buffer]

\* drawBitmap's loop from index i (0-based) on: st = [buffer, dirtySet]
DrawBitmapLoop(st, pixels, i) ==
    LET r == DrawBitmapRun(st, pixels, i, Len(pixels))
    IN  [buffer |-> r.buffer, dirtySet |-> st.dirtySet \o r.added]

\* drawBitmap's synchronous part: the loop, then this.dirtyBytes.push(...dirtySet)
DrawBitmapMem(st, pixels) ==
    LET r == DrawBitmapLoop([buffer |-> st.buffer, dirtySet |-> <<>>], pixels, 0)
    IN  [buffer |-> r.buffer, dirtyBytes |-> st.dirtyBytes \o r.dirtySet]

\* this.buffer[i]: undefined (-1 here) outside the buffer
BufAt(buf, i) == IF i >= 0 /\ i < BufLen THEN buf[i] ELSE -1

\* this.buffer[i] = v: a write outside a Buffer is dropped
BufPut(buf, i, v) == IF i >= 0 /\ i < BufLen THEN [buf EXCEPT ![i] = v] ELSE buf

\* buffByte |= pixelByte and buffByte &= ~pixelByte, with undefined read as 0
OrBitJs(b, k) == IF b < 0 THEN Pow2(k) ELSE OrBit(b, k)
\* a variant that clears bit 0 whatever the row
ClearBitZero(b, k) == IF b < 0 THEN 0 ELSE AndNotBit(b, 0)

AndNotBitJs(b, k) == IF b < 0 THEN 0 ELSE AndNotBit(b, k)

\* image.data[i] for a 0-based i
ImgAt(image, i) == image.data[i + 1]

\* a test that takes every pixel for opaque
NeverTransparent(image, dataIndex) == FALSE

\* !image.data[dataIndex + 3]
Transparent(image, dataIndex) == ImgAt(image, dataIndex + 3) = 0

\* drawRGBAImage: the inner loop over y for column x; c = [buffer, dirtySet, buffIndex, buffByte]
RECURSIVE RgbaRows(_, _, _, _, _, _)
RgbaRows(c, image, dx, dy, x, y) ==
    IF y >= image.height THEN c
    ELSE LET dyy == dy + y
         IN  IF dyy < 0 \/ dyy >= HEIGHT
             THEN RgbaRows(c, image, dx, dy, x, y + 1)
             ELSE LET dyyp == dyy \div 8
                      pageStart == (dyy % 8) = 0
                      save == pageStart /\ (x # 0 \/ y # 0)
                                /\ c.buffByte # BufAt(c.buffer, c.buffIndex)
                      buf1 == IF save THEN BufPut(c.buffer, c.buffIndex, c.buffByte)
                                      ELSE c.buffer
                      ds1 == IF save THEN AddOnce(c.dirtySet, c.buffIndex) ELSE c.dirtySet
                      bi1 == IF pageStart THEN dx + x + WIDTH * dyyp ELSE c.buffIndex
                      bb1 == IF pageStart THEN BufAt(buf1, bi1) ELSE c.buffByte
                      dataIndex == (image.width * y + x) * 4
                      transparent == Transparent(image, dataIndex)
                      bit == ImgAt(image, dataIndex) # 0 \/ ImgAt(image, dataIndex + 1) # 0
                               \/ ImgAt(image, dataIndex + 2) # 0
                      bb2 == IF transparent THEN bb1
                             ELSE IF bit THEN OrBitJs(bb1, dyy % 8)
                                         ELSE AndNotBitJs(bb1, dyy % 8)
                  IN  RgbaRows([buffer |-> buf1, dirtySet |-> ds1,
                                buffIndex |-> bi1, buffByte |-> bb2],
                               image, dx, dy, x, y + 1)

\* drawRGBAImage: the outer loop over x, the columns x .. end - 1 from left to right;
\* st = [buffer, dirtySet]
RECURSIVE RgbaCols(_, _, _, _, _, _)
RgbaCols(st, image, dx, dy, x, end) ==
    IF x >= end THEN st
    ELSE IF end > x + 1
    THEN LET mid == (x + end) \div 2
             left == RgbaCols(st, image, dx, dy, x, mid)
         IN  IF left = st THEN RgbaCols(st, image, dx, dy, mid, end)
             ELSE RgbaCols(left, image, dx, dy, mid, end)
    ELSE LET dxx == dx + x
         IN  IF dxx < 0 \/ dxx >= WIDTH
             THEN st
             ELSE LET dxyp == WIDTH * (dy \div 8) + dx
                      bi0 == x + dxyp
                      c == RgbaRows([buffer |-> st.buffer, dirtySet |-> st.dirtySet,
                                     buffIndex |-> bi0, buffByte |-> BufAt(st.buffer, bi0)],
                                    image, dx, dy, x, 0)
                      save == c.buffByte # BufAt(c.buffer, c.buffIndex)
                  IN  [buffer |-> IF save THEN BufPut(c.buffer, c.buffIndex, c.buffByte)
                                          ELSE c.buffer,
                       dirtySet |-> IF save THEN AddOnce(c.dirtySet, c.buffIndex)
                                            ELSE c.dirtySet]

\* drawRGBAImage's synchronous part: the loops, then this.dirtyBytes.push(...dirtySet)
DrawRGBAMem(st, image, dx, dy) ==
    LET r == RgbaCols([buffer |-> st.buffer, dirtySet |-> <<>>], image, dx, dy, 0, image.width)
    IN  [buffer |-> r.buffer, dirtyBytes |-> st.dirtyBytes \o r.dirtySet]

\* drawPageSeg after its _waitUntilReady: buffer[bufferIndex] = byte, mark once
DrawPageSegMem(st, page, seg, byte) ==
    LET bufferIndex == seg + page * WIDTH
    IN  [buffer |-> [st.buffer EXCEPT ![bufferIndex] = byte],
         dirtyBytes |-> AddOnce(st.dirtyBytes, bufferIndex)]

\* drawPageSeg's range check (it returns at once when this holds)
PageSegOutOfRange(page, seg) ==
    page < 0 \/ page >= MAX_PAGE_COUNT \/ seg < 0 \/ seg >= WIDTH

Abs(n) == IF n < 0 THEN -n ELSE n

\* drawLine's loop: the pixels it plots, in order.  err2 is twice the source's err,
\* which is (dx > dy ? dx : -dy) / 2 and may be a half.
RECURSIVE LineLoop(_, _, _, _, _, _, _, _, _)
LineLoop(x0, y0, x1, y1, dx, dy, sx, sy, err2) ==
    IF x0 = x1 /\ y0 = y1 THEN << <<x0, y0>> >>
    ELSE LET stepX == err2 > -(2 * dx)
             stepY == err2 < 2 * dy
             e1 == IF stepX THEN err2 - 2 * dy ELSE err2
             e2 == IF stepY THEN e1 + 2 * dx ELSE e1
         IN  << <<x0, y0>> >> \o
             LineLoop(IF stepX THEN x0 + sx ELSE x0, IF stepY THEN y0 + sy ELSE y0,
                      x1, y1, dx, dy, sx, sy, e2)

\* a line drawn one axis at a time: along x, then along y
RECURSIVE LineByAxis(_, _, _, _)
LineByAxis(x0, y0, x1, y1) ==
    IF x0 = x1 /\ y0 = y1 THEN << <<x0, y0>> >>
    ELSE IF x0 # x1
    THEN << <<x0, y0>> >> \o LineByAxis(IF x0 < x1 THEN x0 + 1 ELSE x0 - 1, y0, x1, y1)
    ELSE << <<x0, y0>> >> \o LineByAxis(x0, IF y0 < y1 THEN y0 + 1 ELSE y0 - 1, x1, y1)

LinePoints(x0, y0, x1, y1) ==
    LET dx == Abs(x1 - x0)
        sx == IF x0 < x1 THEN 1 ELSE -1
        dy == Abs(y1 - y0)
        sy == IF y0 < y1 THEN 1 ELSE -1
    IN  LineLoop(x0, y0, x1, y1, dx, dy, sx, sy, IF dx > dy THEN dx ELSE -dy)

\* the drawPixel calls of one drawLine, in order
LinePixels(x0, y0, x1, y1, color) ==
    LET pts == LinePoints(x0, y0, x1, y1)
    IN  [i \in DOMAIN pts |-> <<pts[i][1], pts[i][2], color>>]

\* a fillRect whose columns stop one row short of the last
RECURSIVE FillRectShort(_, _, _, _, _, _)
FillRectShort(i, x, y, w, h, color) ==
    IF i >= x + w THEN <<>>
    ELSE LinePixels(i, y, i, IF h > 1 THEN y + h - 2 ELSE y, color)
             \o FillRectShort(i + 1, x, y, w, h, color)

\* the drawPixel calls of one fillRect: a vertical drawLine for each column i = x .. x+w-1
RECURSIVE FillRectFrom(_, _, _, _, _, _)
FillRectFrom(i, x, y, w, h, color) ==
    IF i >= x + w THEN <<>>
    ELSE LinePixels(i, y, i, y + h - 1, color) \o FillRectFrom(i + 1, x, y, w, h, color)

FillRectPixels(x, y, w, h, color) == FillRectFrom(x, x, y, w, h, color)

-----------------------------------------------------------------------------
(* BaseOLED: text.  A string is the sequence of its characters; a font is the object
   writeString is given: [width, height, lookup, fontData]. *)

\* opts.linespacing ?? 1 and opts.letterspacing ?? 1
LINESPACING == 1
LETTERSPACING == 1

\* s.indexOf(c): 0-based, -1 when c is not in s
IndexOf(s, c) ==
    IF Contains(s, c)
    THEN (CHOOSE i \in DOMAIN s : s[i] = c /\ \A j \in 1..(i - 1) : s[j] # c) - 1
    ELSE -1

\* string.split(' ')
RECURSIVE Split(_)
Split(text) ==
    LET k == IndexOf(text, " ")
    IN  IF k < 0 THEN <<text>>
        ELSE <<SubSeq(text, 1, k)>> \o Split(SubSeq(text, k + 2, Len(text)))

\* _findCharBuf: font.fontData.slice(cBufPos, cBufPos + font.width); for a character
\* the lookup does not have, slice(-width, 0) is empty
FindCharBuf(font, c) ==
    LET cBufPos == IndexOf(font.lookup, c) * font.width
    IN  IF cBufPos < 0 THEN <<>>
        ELSE SubSeq(font.fontData, cBufPos + 1, cBufPos + font.width)

\* _readCharBytes: for each byte of the character its bits 0 .. charHeight - 1
ReadCharBytes(byteArray, charHeight) ==
    [i \in DOMAIN byteArray |-> [j \in 1..charHeight |-> BitOf(byteArray[i], j - 1)]]

\* _drawChar from the n-th pair (i, j) on, with the cursor at (x, y): the drawPixel calls
\* it makes, in order.  The colour of each is the character's bit; the colour
\* writeString was given does not reach _drawChar.
RECURSIVE DrawCharFrom(_, _, _, _, _, _, _)
DrawCharFrom(byteArray, charHeight, size, x, y, n, textColor) ==
    IF n >= Len(byteArray) * charHeight THEN <<>>
    ELSE LET i == n \div charHeight
             j == n % charHeight
             color == IF byteArray[i + 1][j + 1] = 1 THEN "1" ELSE "0"
         IN  (IF size = 1 THEN << <<x + i, y + j, color>> >>
              ELSE FillRectPixels(x + i * size, y + j * size, size, size, color))
             \o DrawCharFrom(byteArray, charHeight, size, x, y, n + 1, textColor)

\* the arguments of a writeString call: a = <<font, size, string, color, wrap, sync>>
LineHeight(a) == a[1].height * a[2] + LINESPACING

\* wordArr[w] once the loop has put the word space back (w is 0-based)
WordAt(words, w) ==
    LET word == words[w + 1]
    IN  IF w < Len(words) - 1 \/ Len(word) = 0 THEN Append(word, " ") ELSE word

\* writeString's loops from character i of word w up to the next character to draw, or
\* to the end of the string.  enter: word w is just being entered, its wrap test is
\* still to make.  pos = <<offset, cursor_y>>.
RECURSIVE TextScan(_, _, _, _, _, _)
TextScan(a, words, w, i, enter, pos) ==
    LET len == Len(words)
    IN  IF w >= len THEN [end |-> TRUE, w |-> w, i |-> i, pos |-> pos]
        ELSE LET word == WordAt(words, w)
                 slen == Len(word)
                 compare == a[1].width * a[2] * slen + a[2] * (len - 1)
             IN  IF enter
                 THEN IF a[5] /\ len > 1 /\ w > 0 /\ pos[1] >= WIDTH - compare
                      THEN TextScan(a, words, w, 0, FALSE, <<0, pos[2] + LineHeight(a)>>)
                      ELSE TextScan(a, words, w, 0, FALSE, pos)
                 ELSE IF i >= slen THEN TextScan(a, words, w + 1, 0, TRUE, pos)
                 ELSE IF word[i + 1] = "\n"
                 THEN TextScan(a, words, w, i + 1, FALSE, <<0, pos[2] + LineHeight(a)>>)
                 ELSE [end |-> FALSE, w |-> w, i |-> i, pos |-> pos]

\* after _drawChar has returned: offset += font.width * size + LETTERSPACING, and the
\* letter wrap
AfterGlyph(a, offset, cy) ==
    LET o == offset + a[1].width * a[2] + LETTERSPACING
    IN  IF a[5] /\ o >= WIDTH - a[1].width - LETTERSPACING
        THEN <<0, cy + LineHeight(a)>>
        ELSE <<o, cy>>

\* const immed = typeof sync === 'undefined' ? true : sync
Immed(c, n) == Given(c, n) => c[n]

-----------------------------------------------------------------------------
(* Controller configuration and opcodes *)

SupportedSizes == {<<128, 32>>, <<128, 64>>, <<96, 16>>}

\* config[screenSize] for a size the table does not have: undefined
NoConfig == [multiplex |-> -1, compins |-> -1, coloffset |-> -1]

\* the constructors' config table, config[`${WIDTH}x${HEIGHT}`]
ScreenConfig(drv, w, h) ==
    IF <<w, h>> \in SupportedSizes
    THEN [multiplex |-> IF h = 32 THEN 31 ELSE IF h = 64 THEN 63 ELSE 15,
          compins   |-> IF h = 64 THEN 18 ELSE 2,
          coloffset |-> IF drv = "SH1106" THEN 2 ELSE 0]
    ELSE NoConfig

screenConfig == ScreenConfig(driver, WIDTH, HEIGHT)

\* this.screenConfig.multiplex with screenConfig undefined throws a TypeError
ConfigMissing == screenConfig = NoConfig

DISPLAY_OFF == 174
DISPLAY_ON == 175
SET_DISPLAY_CLOCK_DIV == 213
SET_MULTIPLEX == 168
SET_DISPLAY_OFFSET == 211
SET_CONTRAST == 129
SET_PRECHARGE == 217
SET_VCOM_DETECT == 219
DISPLAY_ALL_ON_RESUME == 164
NORMAL_DISPLAY == 166
SEG_REMAP == 161
COM_SCAN_DEC == 200
SET_COM_PINS == 218
\* SSD1306
ACTIVATE_SCROLL == 47
DEACTIVATE_SCROLL == 46
SET_VERTICAL_SCROLL_AREA == 163
RIGHT_HORIZONTAL_SCROLL == 38
LEFT_HORIZONTAL_SCROLL == 39
VERTICAL_AND_RIGHT_HORIZONTAL_SCROLL == 41
VERTICAL_AND_LEFT_HORIZONTAL_SCROLL == 2
MEMORY_MODE == 32
COLUMN_ADDR == 33
PAGE_ADDR == 34
\* SH1106
SH_SET_START_LINE == 64
SH_CHARGE_PUMP == 173
COLUMN_LOW_START_ADDR == 2
COLUMN_HIGH_START_ADDR == 16
SH_PAGE_ADDR == 176
SET_PAGE_ADDRESSING == 32
PAGE_ADDRESSING_MODE == 2
HORIZONTAL_ADDRESSING_MODE == 0

\* the batches of SSD1306._initialise with the contrast group sent second
InitContrastFirst ==
    << <<DISPLAY_OFF, SET_DISPLAY_CLOCK_DIV, 128>>,
       <<SET_CONTRAST, 143, SET_PRECHARGE, 241>>,
       <<SET_MULTIPLEX, screenConfig.multiplex, SET_DISPLAY_OFFSET, 0, 0>>,
       <<141, 20, MEMORY_MODE, 0>>,
       <<SEG_REMAP, COM_SCAN_DEC, SET_COM_PINS, screenConfig.compins>>,
       <<SET_VCOM_DETECT, 64, DISPLAY_ALL_ON_RESUME, NORMAL_DISPLAY, DISPLAY_ON>> >>

\* SSD1306._initialise: the six batches it sends, in order
Ssd1306InitBatches ==
    << <<DISPLAY_OFF, SET_DISPLAY_CLOCK_DIV, 128>>,
       <<SET_MULTIPLEX, screenConfig.multiplex, SET_DISPLAY_OFFSET, 0, 0>>,
       <<141, 20, MEMORY_MODE, 0>>,
       <<SEG_REMAP, COM_SCAN_DEC, SET_COM_PINS, screenConfig.compins>>,
       <<SET_CONTRAST, 143, SET_PRECHARGE, 241>>,
       <<SET_VCOM_DETECT, 64, DISPLAY_ALL_ON_RESUME, NORMAL_DISPLAY, DISPLAY_ON>> >>

\* SH1106._initialise: the six named sequences it hands to _baseInitialize
Sh1106InitBatches ==
    << <<DISPLAY_OFF, SET_DISPLAY_CLOCK_DIV, 128>>,
       <<SET_MULTIPLEX, screenConfig.multiplex, SET_DISPLAY_OFFSET, 0, SH_SET_START_LINE>>,
       <<SH_CHARGE_PUMP, 139, SET_PAGE_ADDRESSING, HORIZONTAL_ADDRESSING_MODE>>,
       <<SEG_REMAP, COM_SCAN_DEC, SET_COM_PINS, screenConfig.compins>>,
       <<SET_CONTRAST, 128, SET_PRECHARGE, 31>>,
       <<SET_VCOM_DETECT, 64, 50, 214, 0, 192, DISPLAY_ALL_ON_RESUME, NORMAL_DISPLAY,
         DISPLAY_ON>> >>

\* _baseInitialize is not among the sources: each named sequence goes out as one
\* command batch, in the order given (the order section 4.4 of the specification fixes)
BaseInitialize(initSequences) == initSequences

\* the standalone SH1106 driver's _initialise: initSeq, which it sends one byte a write
LegacyInitSeq ==
    <<DISPLAY_OFF, SET_DISPLAY_CLOCK_DIV, 128, SET_MULTIPLEX, screenConfig.multiplex,
      SET_DISPLAY_OFFSET, 0, SH_SET_START_LINE, SH_CHARGE_PUMP, 139, SEG_REMAP, COM_SCAN_DEC,
      SET_COM_PINS, screenConfig.compins, SET_CONTRAST, 128, SET_PRECHARGE, 34,
      SET_VCOM_DETECT, 53, NORMAL_DISPLAY, DISPLAY_ON>>

InitBatches == IF driver = "SSD1306" THEN Ssd1306InitBatches
               ELSE BaseInitialize(Sh1106InitBatches)

-----------------------------------------------------------------------------
(* The bus and the controller behind it *)

\* One call of wire.i2cRead / wire.i2cWrite.  kind "cmd": every byte framed by 0x00;
\* kind "data": every byte framed by 0x40, or (burst) one 0x40 ahead of all of them.
Tx(t, kind, bytes, burst) == [task |-> t, kind |-> kind, bytes |-> bytes, burst |-> burst]

ReadTx(t) == Tx(t, "read", <<>>, FALSE)

\* _transfer(type, val): one write of the control byte and val
Transfer(t, type, val) == Tx(t, type, <<val>>, FALSE)

\* _transferBatch(type, values)
TransferBatch(t, type, values) == Tx(t, type, values, FALSE)

\* wire.i2cWrite(ADDRESS, n, Buffer.concat([Buffer.from([0x40]), this.buffer]))
BufferBurst(t, buf) == Tx(t, "data", [i \in 1..BufLen |-> buf[i - 1]], TRUE)

Drop(s, n) == SubSeq(s, n + 1, Len(s))

\* the control bytes the other way round
SwappedControl(type) == IF type = "data" THEN 0 ELSE 64

\* const control = type === 'data' ? 0x40 : 0x00
Control(type) == IF type = "data" THEN 64 ELSE 0

\* The bytes a write puts on the wire.  _transfer and _transferBatch: buffer[i * 2] =
\* control, buffer[i * 2 + 1] = values[i].  update(): Buffer.concat([[0x40], this.buffer]).
Wire(tx) ==
    IF tx.burst THEN <<64>> \o tx.bytes
    ELSE [i \in 1..(2 * Len(tx.bytes)) |->
            IF i % 2 = 1 THEN Control(tx.kind) ELSE tx.bytes[i \div 2]]

\* opcodes followed by one operand byte
TwoByteCmds == {129, 141, 168, 173, 211, 213, 217, 218, 219}

\* The column-addressed controller decoding a command stream: 0x21 a b sets the
\* column window, 0x22 a b the page window, and the address pointer goes to its start.
RECURSIVE SsdCmd(_, _)
SsdCmd(d, bytes) ==
    IF bytes = <<>> THEN d
    ELSE LET c == Head(bytes)
         IN  IF c = COLUMN_ADDR /\ Len(bytes) >= 3
             THEN SsdCmd([d EXCEPT !.colStart = bytes[2], !.colEnd = bytes[3],
                                   !.col = bytes[2]], Drop(bytes, 3))
             ELSE IF c = PAGE_ADDR /\ Len(bytes) >= 3
             THEN SsdCmd([d EXCEPT !.pageStart = bytes[2], !.pageEnd = bytes[3],
                                   !.page = bytes[2]], Drop(bytes, 3))
             ELSE IF c \in TwoByteCmds \cup {MEMORY_MODE} /\ Len(bytes) >= 2
             THEN SsdCmd(d, Drop(bytes, 2))
             ELSE SsdCmd(d, Tail(bytes))

\* The page-addressed controller: 0xB0+p sets the page, 0x00..0x0F the low nibble of
\* the column, 0x10..0x1F its high nibble.
RECURSIVE ShCmd(_, _)
ShCmd(d, bytes) ==
    IF bytes = <<>> THEN d
    ELSE LET c == Head(bytes)
         IN  IF c >= SH_PAGE_ADDR /\ c <= SH_PAGE_ADDR + 15
             THEN ShCmd([d EXCEPT !.page = c - SH_PAGE_ADDR], Tail(bytes))
             ELSE IF c >= 0 /\ c <= 15
             THEN ShCmd([d EXCEPT !.col = (d.col \div 16) * 16 + c], Tail(bytes))
             ELSE IF c >= 16 /\ c <= 31
             THEN ShCmd([d EXCEPT !.col = (c - 16) * 16 + (d.col % 16)], Tail(bytes))
             ELSE IF c \in TwoByteCmds /\ Len(bytes) >= 2
             THEN ShCmd(d, Drop(bytes, 2))
             ELSE ShCmd(d, Tail(bytes))

\* RAM index the address pointer is at, or -1 when it is outside the panel
DevIndex(d) ==
    LET c == d.col - screenConfig.coloffset
    IN  IF c >= 0 /\ c < WIDTH /\ d.page >= 0 /\ d.page < MAX_PAGE_COUNT
        THEN c + WIDTH * d.page ELSE -1

\* The address pointer after one data byte.  Column-addressed: along the window, then
\* the next page of the window.  Page-addressed: along the page; whether it goes on to
\* the next page at the end of a row (as SH1106.update's comments expect) or stays in
\* the page (as section 4.4 of the specification has it) is d.rowWrap.
DevAdvance(d) ==
    IF driver = "SSD1306"
    THEN IF d.col = d.colEnd
         THEN [d EXCEPT !.col = d.colStart,
                        !.page = IF d.page = d.pageEnd THEN d.pageStart ELSE d.page + 1]
         ELSE [d EXCEPT !.col = d.col + 1]
    ELSE IF d.rowWrap /\ d.col = screenConfig.coloffset + WIDTH - 1
         THEN [d EXCEPT !.col = screenConfig.coloffset, !.page = d.page + 1]
         ELSE [d EXCEPT !.col = d.col + 1]

\* The controller taking data bytes in order from registers d and RAM r: the first half,
\* then the second.  The result is [at, dev, ram]; at lists where the bytes went (a RAM
\* index, or -1 for a byte that fell outside the panel).
RECURSIVE DevData(_, _, _)
DevData(d, r, bytes) ==
    IF bytes = <<>> THEN [at |-> <<>>, dev |-> d, ram |-> r]
    ELSE IF Len(bytes) = 1
    THEN LET i == DevIndex(d)
         IN  [at |-> <<i>>, dev |-> DevAdvance(d),
              ram |-> IF i >= 0 THEN [r EXCEPT ![i] = bytes[1]] ELSE r]
    ELSE LET h == Len(bytes) \div 2
             a == DevData(d, r, SubSeq(bytes, 1, h))
             b == DevData(a.dev, a.ram, SubSeq(bytes, h + 1, Len(bytes)))
         IN  [at |-> a.at \o b.at, dev |-> b.dev, ram |-> b.ram]

\* The controller taking one completed transaction
DevApply(d, r, tx) ==
    IF tx.kind = "cmd"
    THEN [dev |-> IF driver = "SSD1306" THEN SsdCmd(d, tx.bytes) ELSE ShCmd(d, tx.bytes),
          ram |-> r, at |-> <<>>]
    ELSE IF tx.kind = "data"
    THEN DevData(d, r, tx.bytes)
    ELSE [dev |-> d, ram |-> r, at |-> <<>>]

\* the status byte's busy flag: bit 7 in BaseOLED._waitUntilReady, bit 6 in SH1106's
BusyBitSwapped == IF driver = "SH1106" THEN 7 ELSE 6

BusyBit == IF driver = "SH1106" THEN 6 ELSE 7

Busy(byte) == BitOf(byte, BusyBit) = 1

StatusBytes == {0, 64, 128, 192}

-----------------------------------------------------------------------------
(* _updateDirtyBytes: the write plan *)

\* dirtyByteArrayLen > this.buffer.length / 7  (SSD1306._updateDirtyBytes)
FullUpdateCheaper(len) == len * 7 > BufLen

\* _shouldDoFullUpdate(dirtyByteArray) is not among the sources; the standalone SH1106
\* driver has the test inline: dirtyByteArrayLen > this.buffer.length / 7
ShouldDoFullUpdate(len) == len * 7 > BufLen

TakesFullPath(len) ==
    IF driver = "SSD1306" THEN FullUpdateCheaper(len) ELSE ShouldDoFullUpdate(len)

\* bytes.sort((a, b) => a.col - b.col): insert c into an ascending sequence, after its equals
RECURSIVE InsertSorted(_, _)
InsertSorted(s, c) ==
    IF s = <<>> THEN <<c>>
    ELSE IF c < Head(s) THEN <<c>> \o s
    ELSE <<Head(s)>> \o InsertSorted(Tail(s), c)

RECURSIVE SortCols(_)
SortCols(s) == IF s = <<>> THEN <<>> ELSE InsertSorted(SortCols(SubSeq(s, 1, Len(s) - 1)), s[Len(s)])

\* pageGroups.get(page).push({col, byteIndex}), a new entry at the end for a new page
AddToGroups(groups, page, col) ==
    IF \E i \in DOMAIN groups : groups[i].page = page
    THEN [i \in DOMAIN groups |->
            IF groups[i].page = page
            THEN [groups[i] EXCEPT !.cols = Append(groups[i].cols, col)]
            ELSE groups[i]]
    ELSE Append(groups, [page |-> page, cols |-> <<col>>])

\* the loop over dirtyByteArray[0 .. dirtyByteArrayLen-1] filling the Map
RECURSIVE GroupLoop(_, _, _, _)
GroupLoop(groups, arr, len, i) ==
    IF i > len THEN groups
    ELSE GroupLoop(AddToGroups(groups, arr[i] \div WIDTH, arr[i] % WIDTH), arr, len, i + 1)

\* the page groups in Map order, each sorted by column
GroupByPage(arr, len) ==
    LET g == GroupLoop(<<>>, arr, len, 1)
    IN  [i \in DOMAIN g |-> [page |-> g[i].page, cols |-> SortCols(g[i].cols)]]

\* _groupDirtyBytesByPage(dirtyByteArray) is not among the sources; section 4.2 of the
\* specification gives it: group by page idx / W, column idx % W
GroupDirtyBytesByPage(arr, len) == GroupByPage(arr, len)

PageGroups(arr, len) ==
    IF driver = "SSD1306" THEN GroupByPage(arr, len) ELSE GroupDirtyBytesByPage(arr, len)

\* how many leading columns the range loop takes before it flushes: it goes on while
\* col = currentEnd + 1
RECURSIVE RunLength(_)
RunLength(cols) ==
    IF Len(cols) <= 1 THEN Len(cols)
    ELSE IF cols[2] = cols[1] + 1 THEN 1 + RunLength(Tail(cols))
    ELSE 1

\* the range the loop has gathered when it next calls flushCurrentRange with something to
\* send: groups is non-empty and its first page has columns left; idx are the entries'
\* byteIndex values, data is read from buf now
NextRange(groups, buf) ==
    LET g == Head(groups)
        n == RunLength(g.cols)
    IN  [page |-> g.page, start |-> g.cols[1], end |-> g.cols[n],
         idx |-> [i \in 1..n |-> g.cols[i] + g.page * WIDTH],
         data |-> [i \in 1..n |-> buf[g.cols[i] + g.page * WIDTH]],
         rest |-> IF n = Len(g.cols) THEN Tail(groups)
                  ELSE <<[page |-> g.page, cols |-> Drop(g.cols, n)]>> \o Tail(groups)]

\* the addressing sequence flushCurrentRange sends for the range
Ssd1306RangeCmd(r) == <<COLUMN_ADDR, r.start, r.end, PAGE_ADDR, r.page, r.page>>

Sh1106RangeCmd(r) ==
    LET adjustedStart == And7f(r.start) + screenConfig.coloffset
    IN  <<SH_PAGE_ADDR + r.page, And0f(adjustedStart),
          COLUMN_HIGH_START_ADDR + Shr4(adjustedStart)>>

RangeCmd(r) == IF driver = "SSD1306" THEN Ssd1306RangeCmd(r) ELSE Sh1106RangeCmd(r)

\* a variant that leaves the column bias out
PageColCmdNoBias(page, col) ==
    LET c == And7f(col)
    IN  <<SET_PAGE_ADDRESSING, PAGE_ADDRESSING_MODE, SH_PAGE_ADDR + page, And0f(c),
          COLUMN_HIGH_START_ADDR + Shr4(c)>>

\* SH1106.drawPageCol: displaySeq (the high nibble is below 16, so | adds)
PageColCmd(page, col) ==
    LET c == And7f(col) + screenConfig.coloffset
    IN  <<SET_PAGE_ADDRESSING, PAGE_ADDRESSING_MODE, SH_PAGE_ADDR + page, And0f(c),
          COLUMN_HIGH_START_ADDR + Shr4(c)>>

\* SSD1306.startScroll: what the switch on dir puts into cmdSeq
ScrollHead(dir) ==
    IF dir = "right" THEN <<RIGHT_HORIZONTAL_SCROLL>>
    ELSE IF dir = "left" THEN <<LEFT_HORIZONTAL_SCROLL>>
    ELSE IF dir = "left diagonal"
    THEN <<SET_VERTICAL_SCROLL_AREA, 0, VERTICAL_AND_LEFT_HORIZONTAL_SCROLL, HEIGHT>>
    ELSE IF dir = "right diagonal"
    THEN <<SET_VERTICAL_SCROLL_AREA, 0, VERTICAL_AND_RIGHT_HORIZONTAL_SCROLL, HEIGHT>>
    ELSE <<>>

\* SSD1306.startScroll: cmdSeq as it is sent
ScrollSeq(dir, start, stop) ==
    ScrollHead(dir) \o <<0, start, 0, stop, 0, 255, ACTIVATE_SCROLL>>

\* update(): the command batches ahead of the buffer, in order
Ssd1306UpdateCmds ==
    << <<COLUMN_ADDR, screenConfig.coloffset, screenConfig.coloffset + WIDTH - 1,
         PAGE_ADDR, 0, HEIGHT \div 8 - 1>> >>

Sh1106UpdateCmds ==
    << <<SET_PAGE_ADDRESSING, HORIZONTAL_ADDRESSING_MODE, 168, screenConfig.multiplex>>,
       <<SH_PAGE_ADDR, COLUMN_LOW_START_ADDR, COLUMN_HIGH_START_ADDR>> >>

UpdateCmds == IF driver = "SSD1306" THEN Ssd1306UpdateCmds ELSE Sh1106UpdateCmds

-----------------------------------------------------------------------------
(* Tasks: one record for each async call in flight.  pc names the await the call is
   suspended at. *)

InitTask == 0

UserTasks == 1..MaxTasks

NoRange == [page |-> 0, start |-> 0, end |-> 0, idx |-> <<>>, data |-> <<>>, rest |-> <<>>]

\* start and seen are history: the cursor when the call began, and the characters the
\* loops have come to so far (drawn, or taken as a line feed)
NoText ==
    [words |-> <<>>, w |-> 0, i |-> 0, offset |-> 0, cursor |-> <<0, 0>>, start |-> <<0, 0>>,
     seen |-> <<>>]

\* the characters the loops come to from stringArr[i] of word w up to stringArr[ti] of
\* word tw, or up to the end of the text when there is no such character
RECURSIVE CharsFrom(_, _, _, _, _)
CharsFrom(words, w, i, tw, ti) ==
    IF w >= Len(words) THEN <<>>
    ELSE IF i >= Len(WordAt(words, w)) THEN CharsFrom(words, w + 1, 0, tw, ti)
    ELSE IF w = tw /\ i = ti THEN <<WordAt(words, w)[i + 1]>>
    ELSE <<WordAt(words, w)[i + 1]>> \o CharsFrom(words, w, i + 1, tw, ti)

NoTask ==
    [op |-> "none", pc |-> "done", sync |-> FALSE,
     px |-> <<>>,          \* drawLine / fillRect: the drawPixel calls still to make
     ps |-> <<>>,          \* drawPageSeg: <<page, seg, byte>>; startScroll: <<dir, start, stop>>
     ret |-> "none",       \* _waitUntilReady: the read to go back to after the timeout
     polls |-> 0,          \* _waitUntilReady: busy answers so far (kept up to the bound)
     k |-> 0,              \* _initialise, update: the command batch awaited
     clear |-> FALSE,      \* update was called by a caller that then sets dirtyBytes = []
     path |-> "none",      \* _updateDirtyBytes: "incr" or "full"
     live |-> FALSE,       \* dirtyByteArray is still the array this.dirtyBytes refers to
     arr |-> <<>>,         \* dirtyByteArray once it is no longer this.dirtyBytes
     len |-> 0,            \* dirtyByteArrayLen
     cur |-> NoRange,      \* currentStart, currentEnd, currentData and what is left to do
     timer |-> 0,          \* _drawPseudo: the interval whose callback made this call
     txt |-> NoText,       \* writeString: wordArr, w, i, offset and the cursor it has set
     d0 |-> <<>>,          \* history: this.dirtyBytes when the flush began
     sent |-> <<>>]        \* history: the dirty indices whose bytes the flush has sent

Finished(tr) == tr.pc \in {"done", "failed"}

\* a microtask is queued: some call is suspended at `await this.drawPixel(...)`
MicrotaskPending == micro # <<>>

\* the array _updateDirtyBytes iterates
DirtyByteArray(tr, dirty) == IF tr.live THEN dirty ELSE tr.arr

\* What one run of a call, from one await to the next, leaves behind:
\* the call's record, the transaction it submitted (at most one), the buffer and
\* this.dirtyBytes, and whether this.dirtyBytes was assigned a new array.
Step(tr, tx, st, replaced) == [tr |-> tr, tx |-> tx, st |-> st, replaced |-> replaced]

St(buf, dirty) == [buffer |-> buf, dirtyBytes |-> dirty]

Return(tr, st) == Step([tr EXCEPT !.pc = "done"], <<>>, st, FALSE)

\* a flush that ends without the assignment
KeepDirty(st) == st

\* this.dirtyBytes = [] at the end of _updateDirtyBytes and of clearDisplay(true)
ClearDirty(st) == St(st.buffer, <<>>)

\* update(): `await this._waitUntilReady()` submits the status read
EnterUpdate(t, tr, st, clear) ==
    Step([tr EXCEPT !.pc = "up_read", !.clear = clear, !.polls = 0], <<ReadTx(t)>>, st, FALSE)

\* _updateDirtyBytes(this.dirtyBytes) up to its first await
EnterFlush(t, tr, st) ==
    LET len == Len(st.dirtyBytes)
        tr1 == [tr EXCEPT !.len = len, !.d0 = st.dirtyBytes, !.sent = <<>>]
    IN  IF len = 0 THEN Return([tr1 EXCEPT !.path = "none"], st)
        ELSE IF TakesFullPath(len)
        THEN EnterUpdate(t, [tr1 EXCEPT !.path = "full"], st, TRUE)
        ELSE Step([tr1 EXCEPT !.pc = "fi_read", !.path = "incr", !.live = TRUE, !.polls = 0],
                  <<ReadTx(t)>>, st, FALSE)

\* the end of a drawing method: `if (sync) await this._updateDirtyBytes(this.dirtyBytes)`
FlushAndReturn(t, tr, st) == EnterFlush(t, tr, st)

SyncOrReturn(t, tr, st) ==
    IF tr.sync THEN EnterFlush(t, tr, st) ELSE Return(tr, st)

\* the incremental path after its waits: gather the next range and send its addressing,
\* or, with nothing left, `this.dirtyBytes = []`
SendNextRange(t, tr, groups, st) ==
    IF groups = <<>>
    THEN Step([tr EXCEPT !.pc = "done", !.cur = NoRange], <<>>, ClearDirty(st), TRUE)
    ELSE LET r == NextRange(groups, st.buffer)
         IN  Step([tr EXCEPT !.pc = "fi_cmd", !.cur = r],
                  <<TransferBatch(t, "cmd", RangeCmd(r))>>, st, FALSE)

\* the continuation of a call whose status read came back not busy
AfterReady(t, tr, st) ==
    IF tr.pc = "ps_read"
    THEN SyncOrReturn(t, [tr EXCEPT !.polls = 0],
                      DrawPageSegMem(st, tr.ps[1], tr.ps[2], tr.ps[3]))
    ELSE IF tr.pc = "pc_read"
    THEN Step([tr EXCEPT !.pc = "pc_cmd", !.polls = 0],
              <<TransferBatch(t, "cmd", PageColCmd(tr.ps[1], tr.ps[2]))>>,
              [st EXCEPT !.buffer = BufPut(st.buffer, tr.ps[2] + tr.ps[1] * WIDTH, tr.ps[3])],
              FALSE)
    ELSE IF tr.pc = "sc_read"
    THEN Step([tr EXCEPT !.pc = "ctl", !.polls = 0],
              <<TransferBatch(t, "cmd", ScrollSeq(tr.ps[1], tr.ps[2], tr.ps[3]))>>, st, FALSE)
    ELSE IF tr.pc = "up_read"
    THEN Step([tr EXCEPT !.pc = "up_cmd", !.k = 1, !.polls = 0],
              <<TransferBatch(t, "cmd", UpdateCmds[1])>>, st, FALSE)
    ELSE \* "fi_read"
         IF driver = "SH1106"
         THEN Step([tr EXCEPT !.pc = "fi_mode", !.polls = 0],
                   <<TransferBatch(t, "cmd", <<SET_PAGE_ADDRESSING, PAGE_ADDRESSING_MODE>>)>>,
                   st, FALSE)
         ELSE SendNextRange(t, [tr EXCEPT !.polls = 0],
                            PageGroups(DirtyByteArray(tr, st.dirtyBytes), tr.len), st)

\* the continuation of a call whose write completed
AfterWrite(t, tr, st) ==
    IF tr.pc = "init"
    THEN IF ConfigMissing
         THEN Step([tr EXCEPT !.pc = "failed"], <<>>, st, FALSE)
         ELSE IF tr.k < Len(InitBatches)
         THEN Step([tr EXCEPT !.k = tr.k + 1],
                   <<TransferBatch(t, "cmd", InitBatches[tr.k + 1])>>, st, FALSE)
         ELSE Return(tr, st)
    ELSE IF tr.pc = "up_cmd"
    THEN IF tr.k < Len(UpdateCmds)
         THEN Step([tr EXCEPT !.k = tr.k + 1],
                   <<TransferBatch(t, "cmd", UpdateCmds[tr.k + 1])>>, st, FALSE)
         ELSE Step([tr EXCEPT !.pc = "up_data"], <<BufferBurst(t, st.buffer)>>, st, FALSE)
    ELSE IF tr.pc = "up_data"
    THEN IF tr.clear
         THEN Step([tr EXCEPT !.pc = "done"], <<>>, ClearDirty(st), TRUE)
         ELSE Return(tr, st)
    ELSE IF tr.pc = "fi_mode"
    THEN SendNextRange(t, tr, PageGroups(DirtyByteArray(tr, st.dirtyBytes), tr.len), st)
    ELSE IF tr.pc = "ctl"
    THEN Return(tr, st)
    ELSE IF tr.pc = "pc_cmd"
    THEN Step([tr EXCEPT !.pc = "ctl"],
              <<Transfer(t, "data", BufAt(st.buffer, tr.ps[2] + tr.ps[1] * WIDTH))>>, st, FALSE)
    ELSE IF tr.pc = "fi_cmd"
    THEN Step([tr EXCEPT !.pc = "fi_data"],
              <<TransferBatch(t, "data", tr.cur.data)>>, st, FALSE)
    ELSE \* "fi_data"
         SendNextRange(t, [tr EXCEPT !.sent = tr.sent \o tr.cur.idx], tr.cur.rest, st)

-----------------------------------------------------------------------------
(* The event loop: calls start, microtasks run before I/O completions and timers, the
   bus completes transactions in the order they were submitted. *)

Mem == St(buffer, dirtyBytes)

Idle == \A t \in DOMAIN task : Finished(task[t])

\* The constructor calls this._initialise() and drops the promise; _initialise rethrows
\* what the transport threw.  On the Node versions package.json allows (>= 16) that
\* unhandled rejection ends the process: nothing runs after it.  Nor is there anything
\* to call when the constructor threw.
Alive == task[InitTask].pc # "failed" /\ ~env.thrown

\* The caller of a method holds its promise and awaits it; the promise of the
\* constructor's this._initialise() is held by nobody.
Awaited(t) == t # InitTask

\* A new call may start when nothing is in flight, or, where the application overlaps
\* its calls, while an id is free.  Ids are not reused until everything has finished.
CanStart(n) ==
    /\ Alive
    /\ env.calls < n
    /\ \/ Idle
       \/ env.overlap /\ \E t \in UserTasks : task[t].op = "none"

NextId ==
    IF Idle THEN 1
    ELSE CHOOSE t \in UserTasks :
            task[t].op = "none" /\ \A u \in UserTasks : u < t => task[u].op # "none"

New(op, sync) == [NoTask EXCEPT !.op = op, !.sync = sync]

Min(a, b) == IF a < b THEN a ELSE b

\* the task table and the bus log a step starts from: a call started when nothing is in
\* flight starts a fresh history
TableAtStart ==
    IF Idle THEN [u \in DOMAIN task |-> IF u = InitTask THEN task[u] ELSE NoTask] ELSE task

LogAtStart == IF Idle THEN <<>> ELSE bus

\* Apply a step of call t.  Assigning this.dirtyBytes a new array leaves every flush
\* that was handed the old array with the old array.
Commit(t, s, tbl, log, queue, mq) ==
    /\ task' = [u \in DOMAIN tbl |->
                  IF u = t THEN s.tr
                  ELSE IF s.replaced /\ tbl[u].live /\ ~Finished(tbl[u])
                  THEN [tbl[u] EXCEPT !.live = FALSE, !.arr = dirtyBytes]
                  ELSE tbl[u]]
    /\ buffer' = s.st.buffer
    /\ dirtyBytes' = s.st.dirtyBytes
    /\ bus' = log \o s.tx
    /\ pending' = queue \o s.tx
    /\ micro' = IF s.tr.pc = "px" THEN Append(mq, t) ELSE mq

BeginWith(t, s, a, n) ==
    /\ CanStart(n)
    /\ Commit(t, s, TableAtStart, LogAtStart, pending, micro)
    /\ env' = [env EXCEPT !.calls = env.calls + 1]
    /\ anim' = a
    /\ cursor' = IF s.tr.op = "writeString" THEN s.tr.txt.cursor ELSE cursor
    /\ UNCHANGED <<driver, WIDTH, HEIGHT, ram, dev, ghost>>

Begin(t, s) == BeginWith(t, s, anim, MaxCalls)

\* a loop of awaited drawPixel calls: the first runs at once, the rest one per microtask
BeginPixels(t, tr, pixels) ==
    IF pixels = <<>> THEN SyncOrReturn(t, tr, Mem)
    ELSE Step([tr EXCEPT !.pc = "px", !.px = Tail(pixels)], <<>>,
              DrawPixelOne(Mem, Head(pixels)), FALSE)

\* history: a transaction of a call other than _initialise went over the bus before
\* _initialise had sent its last batch
Transmitted(t) ==
    [ghost EXCEPT !.early = ghost.early \/ (t # InitTask /\ task[InitTask].pc # "done")]

\* history: the panel is off (turnOffDisplay has returned and no turnOnDisplay has been sent
\* since), and whether a write of another call went over the bus while it was
Power(g, tr) ==
    IF tr.op = "turnOffDisplay" THEN [g EXCEPT !.off = TRUE]
    ELSE IF tr.op = "turnOnDisplay" THEN [g EXCEPT !.off = FALSE]
    ELSE [g EXCEPT !.offWrite = g.offWrite \/ g.off]

\* history: the paths on which some _updateDirtyBytes has run to its end
Flushed(g, tr) ==
    IF tr.pc = "done" /\ tr.path \in {"incr", "full"}
    THEN [g EXCEPT !.flushed = g.flushed \cup {tr.path}] ELSE g

\* the image every animation here shows: 1x2, an opaque white pixel above a transparent one
AnimImage == [width |-> 1, height |-> 2, data |-> <<255, 255, 255, 255, 0, 0, 0, 0>>]

\* _drawPseudo (clear = false) once its fillRect has returned: prevX/prevY take the
\* position, then drawRGBAImage(image, x, y, true)
FrameDraw(a, tr) ==
    IF tr.op = "_drawPseudo" THEN [a EXCEPT !.prevX = a.x, !.prevY = a.y] ELSE a

\* a variant that moves first and turns round where it has arrived
FrameEndLate(a, tr) ==
    IF tr.op = "_drawPseudo" /\ tr.pc = "done"
    THEN LET image == a.pics[tr.timer]
             x == a.x + a.dx
             y == a.y + a.dy
         IN  [a EXCEPT !.x = x, !.y = y,
                       !.dx = IF x > WIDTH - image.width \/ x < 1 THEN -a.dx ELSE a.dx,
                       !.dy = IF y > HEIGHT - image.height \/ y < 1 THEN -a.dy ELSE a.dy]
    ELSE a

\* _drawPseudo after drawRGBAImage has returned: turn round at an edge, then move
FrameEnd(a, tr) ==
    IF tr.op = "_drawPseudo" /\ tr.pc = "done"
    THEN LET image == a.pics[tr.timer]
             dx == IF a.x + a.dx > WIDTH - image.width \/ a.x < 1 THEN -a.dx ELSE a.dx
             dy == IF a.y + a.dy > HEIGHT - image.height \/ a.y < 1 THEN -a.dy ELSE a.dy
         IN  [a EXCEPT !.dx = dx, !.dy = dy, !.x = a.x + dx, !.y = a.y + dy]
    ELSE a

\* resourceTracker.clearTimer(timerId)
ClearTimer(a, id) ==
    [a EXCEPT !.live = a.live \ {id},
              !.timers = SelectSeq(a.timers, LAMBDA e : e # id)]

\* the interval callback's catch: a frame that threw clears its own timer
FrameFailed(a, tr) ==
    IF tr.op = "_drawPseudo" THEN ClearTimer(a, tr.timer) ELSE a

\* writeString at the next character to draw (sc, from TextScan): _drawChar makes its
\* first drawPixel call; at the end of the string, the flush if immed.  The cursor is
\* where writeString's setCursor calls have left it.
DrawNextChar(t, tr, st, sc) ==
    LET a == tr.ps
        from == IF tr.txt.seen = <<>> THEN <<0, 0>> ELSE <<tr.txt.w, tr.txt.i + 1>>
        tx1 == [tr.txt EXCEPT !.w = sc.w, !.i = sc.i, !.offset = sc.pos[1],
                              !.cursor = sc.pos,
                              !.seen = tr.txt.seen
                                         \o CharsFrom(tr.txt.words, from[1], from[2], sc.w, sc.i)]
        tr1 == [tr EXCEPT !.txt = tx1]
    IN  IF sc.end THEN SyncOrReturn(t, tr1, st)
        ELSE LET charBuf == FindCharBuf(a[1], WordAt(tx1.words, sc.w)[sc.i + 1])
                 pixels == DrawCharFrom(ReadCharBytes(charBuf, a[1].height), a[1].height,
                                        a[2], sc.pos[1], sc.pos[2], 0, a[4])
             IN  IF pixels = <<>> THEN Step([tr1 EXCEPT !.pc = "px", !.px = <<>>], <<>>, st, FALSE)
                 ELSE Step([tr1 EXCEPT !.pc = "px", !.px = Tail(pixels)], <<>>,
                           DrawPixelOne(st, Head(pixels)), FALSE)

\* writeString when _drawChar has returned: the new offset, the letter wrap, setCursor,
\* and on to the next character
WriteStringOn(t, tr, st, cy) ==
    LET pos == AfterGlyph(tr.ps, tr.txt.offset, cy)
    IN  DrawNextChar(t, tr, st,
                     TextScan(tr.ps, tr.txt.words, tr.txt.w, tr.txt.i + 1, FALSE, pos))

\* where a call goes on when its loop of drawPixel calls has ended
AfterPixels(t, tr, st) ==
    IF tr.op = "_drawPseudo"
    THEN EnterFlush(t, tr, DrawRGBAMem(st, anim.pics[tr.timer], anim.x, anim.y))
    ELSE IF tr.op = "writeString"
    THEN WriteStringOn(t, tr, st, cursor[2])
    ELSE SyncOrReturn(t, tr, st)

\* the microtask that resumes the call at the head of the queue after
\* `await this.drawPixel(...)`
Micro ==
    /\ Alive
    /\ micro # <<>>
    /\ LET t == Head(micro)
           tr == task[t]
           s == IF tr.px = <<>> THEN AfterPixels(t, tr, Mem)
                ELSE Step([tr EXCEPT !.px = Tail(tr.px)], <<>>,
                          DrawPixelOne(Mem, Head(tr.px)), FALSE)
       IN  /\ Commit(t, s, task, bus, pending, Tail(micro))
           /\ anim' = FrameEnd(IF tr.px = <<>> THEN FrameDraw(anim, tr) ELSE anim, s.tr)
           /\ cursor' = IF tr.op = "writeString" /\ tr.px = <<>> THEN s.tr.txt.cursor
                        ELSE cursor
    /\ UNCHANGED <<driver, WIDTH, HEIGHT, ram, dev, env, ghost>>

\* the oldest outstanding transaction completes, once no microtask is left to run
Completes(kinds) ==
    /\ Alive
    /\ ~MicrotaskPending
    /\ pending # <<>>
    /\ Head(pending).kind \in kinds

\* i2cWrite's promise resolves: the controller has taken the bytes
IoOk ==
    /\ Completes({"cmd", "data"})
    /\ LET t == Head(pending).task
           d == DevApply(dev, ram, Head(pending))
           s == AfterWrite(t, task[t], Mem)
       IN  /\ dev' = d.dev
           /\ ram' = d.ram
           /\ Commit(t, s, task, bus, Tail(pending), micro)
           /\ anim' = FrameEnd(anim, s.tr)
           /\ ghost' = Power(Flushed(Transmitted(t), s.tr), task[t])
    /\ UNCHANGED <<cursor, driver, WIDTH, HEIGHT, env>>

\* tick of _waitUntilReady once _readI2C has resolved with the status byte b: busy, it
\* awaits setTimeout(resolve, 0); not busy, it returns and the caller goes on
ReadI2C(b) ==
    /\ Completes({"read"})
    /\ LET t == Head(pending).task
           s == IF Busy(b)
                THEN Step([task[t] EXCEPT !.pc = "yield", !.ret = task[t].pc,
                                          !.polls = Min(task[t].polls + 1, MaxBusy + 1)],
                          <<>>, Mem, FALSE)
                ELSE AfterReady(t, task[t], Mem)
       IN  /\ Commit(t, s, task, bus, Tail(pending), micro)
           /\ ghost' = IF Busy(b) THEN Transmitted(t) ELSE Flushed(Transmitted(t), s.tr)
    /\ UNCHANGED <<cursor, driver, WIDTH, HEIGHT, ram, dev, env, anim>>

\* _readI2C resolves with a status byte whose busy flag is clear
IoReady ==
    /\ ~env.stuck
    /\ \E b \in StatusBytes : ~Busy(b) /\ ReadI2C(b)

\* _readI2C resolves with the busy flag set: tick awaits setTimeout(resolve, 0)
IoBusy ==
    /\ Completes({"read"})
    /\ env.stuck \/ task[Head(pending).task].polls < MaxBusy
    /\ \E b \in StatusBytes : Busy(b) /\ ReadI2C(b)

\* the bus log keeps one entry for a status read the poll loop repeats
LogSansPoll(t) ==
    IF bus # <<>> /\ bus[Len(bus)] = ReadTx(t) THEN SubSeq(bus, 1, Len(bus) - 1) ELSE bus

\* a timeout fires: tick calls itself and reads the status again
TimerFire ==
    /\ Alive
    /\ ~MicrotaskPending
    /\ \E t \in DOMAIN task :
          /\ task[t].pc = "yield"
          /\ Commit(t, Step([task[t] EXCEPT !.pc = task[t].ret, !.ret = "none"],
                            <<ReadTx(t)>>, Mem, FALSE),
                    task, LogSansPoll(t), pending, micro)
    /\ UNCHANGED <<cursor, driver, WIDTH, HEIGHT, ram, dev, env, anim, ghost>>

\* the transport rejects: the exception leaves every frame of the call
IoFail ==
    /\ Completes({"cmd", "data", "read"})
    /\ env.fails < MaxFail
    /\ LET t == Head(pending).task
       IN  /\ Commit(t, Step([task[t] EXCEPT !.pc = "failed"], <<>>, Mem, FALSE),
                     task, bus, Tail(pending), micro)
           /\ anim' = FrameFailed(anim, task[t])
    /\ env' = [env EXCEPT !.fails = env.fails + 1]
    /\ UNCHANGED <<cursor, driver, WIDTH, HEIGHT, ram, dev, ghost>>

-----------------------------------------------------------------------------
(* The calls the application makes *)

\* the largest dirty count that still takes the incremental path
ThresholdLen == BufLen \div 7

\* n pixels lit along row 0: n distinct bytes
RowPixels(n) == [i \in 1..n |-> <<i - 1, 0, "1">>]

\* each call below is <<arguments ..., sync>>
PixelCalls ==
    { << << <<0, 0, "1">>, <<3, 9, "1">> >>, FALSE >>,
      << RowPixels(ThresholdLen + 1), TRUE >> }

\* a bitmap of just over half the threshold, all lit
BitmapCalls ==
    { << [i \in 1..(ThresholdLen \div 2 + 1) |-> "1"], FALSE >>,
      << [i \in 1..(ThresholdLen \div 2 + 1) |-> "1"], TRUE >> }

\* a 1x2 RGBA image, an opaque white pixel above a transparent one, put across a page edge
ImageCalls ==
    { << [width |-> 1, height |-> 2, data |-> <<255, 255, 255, 255, 0, 0, 0, 0>>],
         2, 7, TRUE >> }

LineCalls == { <<0, 0, 2, 1, "1", TRUE>> }

RectCalls == { <<1, 7, 1, 2, "1", TRUE>> }

PageSegCalls == { <<0, 5, 170, TRUE>> }

ClearCalls == BOOLEAN

DrawPixel ==
    \E c \in PixelCalls :
        LET t == NextId
        IN  Begin(t, SyncOrReturn(t, New("drawPixel", c[2]), DrawPixels(Mem, c[1])))

\* drawLine(x0, y0, x1, y1, color, sync) for one of the given calls; the record keeps
\* the arguments
DrawLineFrom(calls) ==
    \E c \in calls :
        LET t == NextId
        IN  Begin(t, BeginPixels(t, [New("drawLine", DefaultTrue(c, 6)) EXCEPT !.ps = c],
                                 LinePixels(c[1], c[2], c[3], c[4], c[5])))

DrawLine == DrawLineFrom(LineCalls)

\* fillRect(x, y, w, h, color, sync)
FillRectOf(calls) ==
    \E c \in calls :
        LET t == NextId
        IN  Begin(t, BeginPixels(t, [New("fillRect", DefaultTrue(c, 6)) EXCEPT !.ps = c],
                                 FillRectPixels(c[1], c[2], c[3], c[4], c[5])))

FillRect == FillRectOf(RectCalls)

\* drawBitmap(pixels, sync)
DrawBitmapFrom(calls) ==
    \E c \in calls :
        LET t == NextId
        IN  Begin(t, SyncOrReturn(t, [New("drawBitmap", IfSync(c, 2)) EXCEPT !.ps = c],
                                  DrawBitmapMem(Mem, c[1])))

DrawBitmap == DrawBitmapFrom(BitmapCalls)

\* drawRGBAImage(image, dx, dy, sync)
DrawImageFrom(calls) ==
    \E c \in calls :
        LET t == NextId
        IN  Begin(t, SyncOrReturn(t, [New("drawRGBAImage", Immed(c, 4)) EXCEPT !.ps = c],
                                  DrawRGBAMem(Mem, c[1], c[2], c[3])))

DrawRGBAImage == DrawImageFrom(ImageCalls)

\* SH1106.drawPageCol(page, col, byte), up to its first await
DrawPageColFrom(calls) ==
    /\ driver = "SH1106"
    /\ \E c \in calls :
          LET t == NextId
          IN  Begin(t, Step([New("drawPageCol", FALSE) EXCEPT !.pc = "pc_read", !.ps = c],
                            <<ReadTx(t)>>, Mem, FALSE))

DrawPageSeg ==
    \E c \in PageSegCalls :
        LET t == NextId
            tr == [New("drawPageSeg", c[4]) EXCEPT !.ps = <<c[1], c[2], c[3]>>]
        IN  Begin(t, IF PageSegOutOfRange(c[1], c[2]) THEN Return(tr, Mem)
                     ELSE Step([tr EXCEPT !.pc = "ps_read"], <<ReadTx(t)>>, Mem, FALSE))

ClearDisplayFrom(calls) ==
    \E c \in calls :
        LET t == NextId
            sync == IfSync(c, 1)
            tr == [New("clearDisplay", sync) EXCEPT !.ps = c]
        IN  Begin(t, [(IF sync THEN EnterUpdate(t, tr, ClearMem, TRUE)
                               ELSE Return(tr, ClearMem)) EXCEPT !.replaced = TRUE])

ClearDisplay == ClearDisplayFrom({ <<sync>> : sync \in ClearCalls })

Update ==
    LET t == NextId
    IN  Begin(t, EnterUpdate(t, New("update", FALSE), Mem, FALSE))

\* BaseOLED.turnOffDisplay, as SSD1306 inherits it: one command write.  (SH1106 hands its
\* own to _enhancedTurnOffDisplay, which is not among the sources.)
TurnOffDisplay ==
    /\ driver = "SSD1306"
    /\ LET t == NextId
       IN  Begin(t, Step([New("turnOffDisplay", FALSE) EXCEPT !.pc = "ctl"],
                         <<Transfer(t, "cmd", DISPLAY_OFF)>>, Mem, FALSE))

\* BaseOLED.turnOnDisplay
TurnOnDisplay ==
    /\ driver = "SSD1306"
    /\ LET t == NextId
       IN  Begin(t, Step([New("turnOnDisplay", FALSE) EXCEPT !.pc = "ctl"],
                         <<Transfer(t, "cmd", DISPLAY_ON)>>, Mem, FALSE))

\* <<dir, start, stop>>
ScrollCalls == { <<"left", 0, 1>>, <<"left diagonal", 0, 1>>, <<"right diagonal", 0, 1>> }

\* SSD1306.startScroll up to `await this._waitUntilReady()`
Ssd1306StartScroll(t, tr) == Step([tr EXCEPT !.pc = "sc_read"], <<ReadTx(t)>>, Mem, FALSE)

\* SSD1306.stopScroll
Ssd1306StopScroll(t, tr) ==
    Step([tr EXCEPT !.pc = "ctl"], <<Transfer(t, "cmd", DEACTIVATE_SCROLL)>>, Mem, FALSE)

\* a scroll method that would send the stop command on either controller
ScrollAnyway(t, tr) == Ssd1306StopScroll(t, tr)

\* SH1106.startScroll and SH1106.stopScroll: a warning in the log, nothing else
Sh1106Scroll(t, tr) == Return(tr, Mem)

StartScroll ==
    \E c \in ScrollCalls :
        LET t == NextId
            tr == [New("startScroll", FALSE) EXCEPT !.ps = c]
        IN  Begin(t, IF driver = "SH1106" THEN Sh1106Scroll(t, tr)
                     ELSE Ssd1306StartScroll(t, tr))

StopScroll ==
    LET t == NextId
        tr == New("stopScroll", FALSE)
    IN  Begin(t, IF driver = "SH1106" THEN Sh1106Scroll(t, tr) ELSE Ssd1306StopScroll(t, tr))

CursorCalls == { <<0, 0>>, <<3, 8>> }

\* setCursor(x, y): not async, it runs wherever the application calls it
SetCursor ==
    /\ Alive
    /\ \E c \in CursorCalls : cursor' = c
    /\ UNCHANGED <<driver, WIDTH, HEIGHT, buffer, dirtyBytes, task, bus, pending, micro,
                   ram, dev, env, anim, ghost>>

\* the coordinates an application may pass: corners, a point inside, and one point
\* beyond each edge (WIDTH and HEIGHT themselves are already outside)
PixelPoints ==
    { <<0, 0>>, <<3, 9>>, <<WIDTH - 1, HEIGHT - 1>>,
      <<-1, 0>>, <<WIDTH, 0>>, <<0, -1>>, <<0, HEIGHT>> }

\* drawPixel([x, y, color], false): the lazy single-pixel form, every colour value
PixelInputs == { <<p[1], p[2], c>> : p \in PixelPoints, c \in Colors }

\* drawPixel(pixels, sync) or drawPixel(pixels)
DrawPixelFrom(calls) ==
    \E c \in calls :
        LET t == NextId
        IN  Begin(t, SyncOrReturn(t, [New("drawPixel", IfSync(c, 2)) EXCEPT !.ps = c],
                                  DrawPixels(Mem, c[1])))

PlotFrom(inputs) ==
    \E el \in inputs :
        LET t == NextId
        IN  Begin(t, SyncOrReturn(t, [New("drawPixel", FALSE) EXCEPT !.ps = el],
                                  DrawPixels(Mem, <<el>>)))

PlotPixel == PlotFrom(PixelInputs)

\* calls that reach over the edges of the display, none of them synced
OutsideInputs ==
    { <<-1, 0, "1">>, <<WIDTH, 0, "0">>, <<0, -1, "WHITE">>, <<0, HEIGHT, "BLACK">>,
      <<WIDTH, HEIGHT, "0">>, <<WIDTH - 1, HEIGHT - 1, "0">> }

EdgeLines ==
    { <<-2, -1, 1, 1, "0", FALSE>>, <<WIDTH - 2, HEIGHT - 2, WIDTH + 1, HEIGHT, "0", FALSE>>,
      <<-3, 4, -1, 4, "0", FALSE>>, <<2, HEIGHT + 2, 2, HEIGHT - 2, "0", FALSE>> }

EdgeRects ==
    { <<-1, -1, 3, 3, "0", FALSE>>, <<WIDTH - 1, HEIGHT - 1, 2, 2, "0", FALSE>>,
      <<WIDTH, 0, 2, 2, "0", FALSE>> }

\* endpoints on and off the display, every direction and slope among them; drawn in
\* the colour the constructor's buffer already has, and one diagonal drawn dark
LineEnds == {-1, 0, 3}

LineInputs ==
    { <<x0, y0, x1, y1, "1", FALSE>> : x0 \in LineEnds, y0 \in LineEnds,
                                        x1 \in LineEnds, y1 \in LineEnds }
        \cup { <<0, 0, 5, 5, "0", FALSE>>, <<5, 2, 0, 0, "1", FALSE>>,
               <<0, 5, 2, 0, "1", FALSE>> }

\* rectangles inside the display, across a page edge and over the corners, lit and dark
RectInputs ==
    { <<p[1], p[2], d[1], d[2], c, FALSE>> :
        p \in { <<2, 2>>, <<-1, -1>>, <<WIDTH - 2, 6>> },
        d \in { <<1, 1>>, <<3, 4>>, <<2, 9>> },
        c \in {"0", "1"} }

\* 1x2: opaque white above transparent; 2x2: opaque black, opaque white, transparent,
\* opaque black (rows of RGBA quadruples)
Image1x2 == [width |-> 1, height |-> 2, data |-> <<255, 255, 255, 255, 0, 0, 0, 0>>]

Image2x2 ==
    [width |-> 2, height |-> 2,
     data |-> <<0, 0, 0, 255, 255, 255, 255, 255, 9, 9, 9, 0, 0, 0, 0, 255>>]

EdgeImages ==
    { <<img, dx, dy, FALSE>> :
        img \in {Image1x2, Image2x2}, dx \in {-1, WIDTH - 1, WIDTH},
        dy \in {-9, -1, 7, HEIGHT - 1, HEIGHT} }

\* images put on lit and on dark ground: inside a page, across the page edge, at the
\* right and bottom edges and over the top edge
\* ten rows in one column: black, green and transparent in turn
Image1x10 ==
    [width |-> 1, height |-> 10,
     data |-> [i \in 1..40 |->
                 LET y == (i - 1) \div 4
                     ch == (i - 1) % 4
                 IN  IF y % 3 = 0 THEN (IF ch = 3 THEN 255 ELSE 0)
                     ELSE IF y % 3 = 1 THEN (IF ch = 3 THEN 255 ELSE IF ch = 1 THEN 7 ELSE 0)
                     ELSE (IF ch = 3 THEN 0 ELSE 9)]]

ImageInputs ==
    { <<img, dx, dy, FALSE>> :
        img \in {Image1x2, Image2x2, Image1x10}, dx \in {-1, 0, WIDTH - 1},
        dy \in {-9, -1, 0, 6, 7, HEIGHT - 1, HEIGHT} }

\* a font of two characters, 30 columns by 2 rows, so that three characters fill a line
\* of the 96 columns: "A" has the upper row set in every column, " " has nothing set
WideFont ==
    [width |-> 30, height |-> 2, lookup |-> <<"A", " ">>,
     fontData |-> [i \in 1..60 |-> IF i <= 30 THEN 1 ELSE 0]]

\* writeString(font, size, string, color, wrap, sync): the strings "A AAAA", "AAAA" and
\* "A A", in white and in black, wrapped and not
TextInputs ==
    { <<WideFont, 1, <<"A", " ", "A", "A", "A", "A">>, "1", TRUE, FALSE>>,
      <<WideFont, 1, <<"A", "A", "A", "A">>, "0", TRUE, FALSE>>,
      <<WideFont, 1, <<"A", " ", "A">>, "0", FALSE, FALSE>> }

\* writeString up to its first await
WriteStringFrom(calls) ==
    \E c \in calls :
        LET t == NextId
            words == Split(c[3])
            tr == [New("writeString", Immed(c, 6)) EXCEPT
                      !.ps = c, !.txt = [NoText EXCEPT !.words = words, !.start = cursor]]
        IN  Begin(t, DrawNextChar(t, tr, Mem, TextScan(c, words, 0, 0, TRUE, cursor)))

WriteString == WriteStringFrom(TextInputs)

\* calls that leave out the optional sync argument: clearDisplay(), drawPixel([[3, 9, 0]]),
\* drawLine(0, 0, 2, 1, 0), fillRect(1, 7, 1, 2, 0), drawBitmap of three dark pixels,
\* writeString(font, 1, 'A', 1, false) and drawRGBAImage(image, 0, 0)
NoSyncClears == { <<>> }

NoSyncPixels == { << << <<3, 9, "0">> >> >> }

NoSyncLines == { <<0, 0, 2, 1, "0">> }

NoSyncRects == { <<1, 7, 1, 2, "0">> }

NoSyncBitmaps == { << <<"0", "0", "0">> >> }

NoSyncTexts == { <<WideFont, 1, <<"A">>, "1", FALSE>> }

NoSyncImages == { <<Image2x2, 0, 0>> }

\* five line feeds and "AAAA", not wrapped: from the cursor (0, 0) the characters stand
\* in rows 15 and 16, across the bottom edge, and the fourth one in columns 93 .. 122,
\* across the right edge
EdgeTexts ==
    { <<WideFont, 1, <<"\n", "\n", "\n", "\n", "\n", "A", "A", "A", "A">>, "1", FALSE, FALSE>> }

\* pixel arrays of numbers: 0, 255 and 1 in turn, beginning with the k-th of them
Bits(n, k) ==
    [i \in 1..n |-> IF (i + k) % 3 = 1 THEN "0" ELSE IF (i + k) % 3 = 2 THEN "255" ELSE "1"]

\* drawBitmap(pixels, false): empty, one pixel, five, a row and two more, and two more
\* than the display has
BitmapInputs ==
    { <<Bits(n, k), FALSE>> : n \in {0, 1, 5, WIDTH + 2, WIDTH * HEIGHT + 2}, k \in {0, 1} }

\* a font of two characters of one pixel each
TinyFont == [width |-> 1, height |-> 1, lookup |-> <<"A", " ">>, fontData |-> <<1, 0>>]

\* writeString(font, 1, text, 1, wrap, false) for the texts "", " ", "A", "A ", " A",
\* "A  A", "A A " and "A\nA ", wrapped and not
SplitTexts ==
    { <<>>, <<" ">>, <<"A">>, <<"A", " ">>, <<" ", "A">>, <<"A", " ", " ", "A">>,
      <<"A", " ", "A", " ">>, <<"A", "\n", "A", " ">> }

SplitInputs == { <<TinyFont, 1, text, "1", wrap, FALSE>> : text \in SplitTexts, wrap \in BOOLEAN }

\* the columns whose biased address col + coloffset takes every low nibble, every high
\* nibble of the display, and both sides of every carry between the two
Columns ==
    (0..15) \cup { col \in 0..(WIDTH - 1) : (col + 2) % 16 \in {0, 15} } \cup {WIDTH - 1}

\* drawPageCol(page, col, 0xff) and drawPixel([col, 8 * page, 1], true) for these columns,
\* in the page col mod MAX_PAGE_COUNT; neither changes the buffer the constructor leaves
PageColInputs == { <<col % MAX_PAGE_COUNT, col, 255>> : col \in Columns }

ColumnFlushes ==
    { << << <<col, 8 * (col % MAX_PAGE_COUNT), "1">> >>, TRUE >> : col \in Columns }

\* a bitmap two pixels longer than the display, dark
LongBitmaps == { << [i \in 1..(WIDTH * HEIGHT + 2) |-> "0"], FALSE >> }

-----------------------------------------------------------------------------
(* Specifications *)

Drivers == {"SSD1306", "SH1106"}

\* SH1106._initialise builds all its sequences, screenConfig.multiplex among them, before
\* its first await: with no config it throws before anything is sent.  SSD1306._initialise
\* sends its first batch before it reads screenConfig.
ThrowsAtOnce == driver = "SH1106" /\ ConfigMissing

\* the state the constructor leaves: the buffer filled with 0xff, nothing dirty, and
\* _initialise called but not awaited, its first batch on its way.  The controller's RAM
\* starts out equal to the buffer.
Constructed(w, h, overlap, stuck) ==
    /\ driver \in Drivers
    /\ WIDTH = w
    /\ HEIGHT = h
    /\ buffer = [i \in 0..(BufLen - 1) |-> 255]
    /\ dirtyBytes = <<>>
    /\ cursor = <<0, 0>>
    /\ task = [t \in {InitTask} \cup UserTasks |->
                 IF t # InitTask THEN NoTask
                 ELSE IF ThrowsAtOnce THEN [New("_initialise", FALSE) EXCEPT !.pc = "failed"]
                 ELSE [New("_initialise", FALSE) EXCEPT !.pc = "init", !.k = 1]]
    /\ bus = IF ThrowsAtOnce THEN <<>>
             ELSE <<TransferBatch(InitTask, "cmd", InitBatches[1])>>
    /\ pending = bus
    /\ micro = <<>>
    /\ ram = buffer
    /\ \E wrap \in (IF driver = "SH1106" THEN BOOLEAN ELSE {FALSE}) :
          dev = [colStart |-> 0, colEnd |-> WIDTH - 1, pageStart |-> 0,
                 pageEnd |-> MAX_PAGE_COUNT - 1, col |-> 0, page |-> 0, rowWrap |-> wrap]
    /\ env = [fails |-> 0, calls |-> 0, overlap |-> overlap, stuck |-> stuck,
              thrown |-> FALSE]
    /\ anim = [timers |-> <<>>, live |-> {}, parsing |-> {}, images |-> 0, other |-> {},
               pics |-> <<>>, pdx |-> 0, pdy |-> 0,
               init |-> TRUE, image |-> 0, x |-> 0, y |-> 0, prevX |-> 0, prevY |-> 0,
               dx |-> 0, dy |-> 0, reset |-> FALSE]
    /\ ghost = [early |-> FALSE, flushed |-> {}, off |-> FALSE, offWrite |-> FALSE]

\* Oled.constructor with opts.driver naming no driver: it throws `Unknown driver`, there
\* is no instance
Refused(w, h) ==
    /\ driver = "SSD1309"
    /\ WIDTH = w
    /\ HEIGHT = h
    /\ buffer = [i \in 0..(BufLen - 1) |-> 255]
    /\ dirtyBytes = <<>>
    /\ cursor = <<0, 0>>
    /\ task = [t \in {InitTask} \cup UserTasks |-> NoTask]
    /\ bus = <<>>
    /\ pending = <<>>
    /\ micro = <<>>
    /\ ram = buffer
    /\ dev = [colStart |-> 0, colEnd |-> WIDTH - 1, pageStart |-> 0,
              pageEnd |-> MAX_PAGE_COUNT - 1, col |-> 0, page |-> 0, rowWrap |-> FALSE]
    /\ env = [fails |-> 0, calls |-> 0, overlap |-> FALSE, stuck |-> FALSE, thrown |-> TRUE]
    /\ anim = [timers |-> <<>>, live |-> {}, parsing |-> {}, images |-> 0, other |-> {},
               pics |-> <<>>, pdx |-> 0, pdy |-> 0,
               init |-> TRUE, image |-> 0, x |-> 0, y |-> 0, prevX |-> 0, prevY |-> 0,
               dx |-> 0, dy |-> 0, reset |-> FALSE]
    /\ ghost = [early |-> FALSE, flushed |-> {}, off |-> FALSE, offWrite |-> FALSE]

Call ==
    \/ DrawPixel
    \/ DrawLine
    \/ FillRect
    \/ DrawBitmap
    \/ DrawRGBAImage
    \/ DrawPageSeg
    \/ ClearDisplay
    \/ Update

Run ==
    \/ Micro
    \/ IoOk
    \/ IoReady
    \/ IoBusy
    \/ TimerFire
    \/ IoFail

Next == Call \/ Run

\* the application awaits each call before it makes the next
Init == Constructed(96, 16, FALSE, FALSE)

Spec == Init /\ [][Next]_vars

\* the application starts calls while others are in flight, the first ones while
\* _initialise is still sending
InitBus == Constructed(96, 16, TRUE, FALSE)

\* the calls battery() starts together
CallBus ==
    \/ DrawLine
    \/ FillRect

\* a device that is never busy
RunBus ==
    \/ Micro
    \/ IoOk
    \/ IoReady
    \/ IoFail

NextBus == CallBus \/ RunBus

SpecBus == InitBus /\ [][NextBus]_vars

\* the calls that end in a flush of what earlier unsynced calls left dirty
CallFlush ==
    \/ DrawPixel
    \/ DrawLine
    \/ DrawBitmap
    \/ ClearDisplay

NextFlush == CallFlush \/ Run

SpecFlush == Init /\ [][NextFlush]_vars

\* a controller that answers every status read with the busy flag set; the event loop
\* runs whatever is ready
InitPoll == Constructed(96, 16, FALSE, TRUE)

CallPoll ==
    \/ Update
    \/ DrawPageSeg
    \/ ClearDisplay

RunPoll ==
    \/ IoOk
    \/ IoBusy
    \/ TimerFire
    \/ IoFail

NextPoll == CallPoll \/ RunPoll

SpecPoll == InitPoll /\ [][NextPoll]_vars /\ WF_vars(NextPoll)

\* the control methods among the drawing calls, one call at a time
CallCtl ==
    \/ TurnOffDisplay
    \/ TurnOnDisplay
    \/ StartScroll
    \/ StopScroll
    \/ SetCursor
    \/ DrawPixel
    \/ DrawLine
    \/ Update

NextCtl == CallCtl \/ Run

SpecCtl == Init /\ [][NextCtl]_vars

\* the sizes an application may ask for: the three of the config table and one more
Geometries == SupportedSizes \cup {<<64, 48>>}

\* new Oled(i2c, opts) for every driver name and size
InitGeom ==
    \E g \in Geometries :
        \/ Constructed(g[1], g[2], FALSE, FALSE)
        \/ Refused(g[1], g[2])

NextGeom ==
    \/ Update
    \/ IoOk
    \/ IoReady
    \/ IoFail

SpecGeom == InitGeom /\ [][NextGeom]_vars

\* single pixels drawn into the buffer, on what the constructor and clearDisplay leave
CallDraw ==
    \/ PlotPixel
    \/ ClearDisplay

NextDraw ==
    \/ CallDraw
    \/ IoOk
    \/ IoReady
    \/ IoFail

SpecDraw == Init /\ [][NextDraw]_vars

\* lines drawn into the buffer
NextLine ==
    \/ DrawLineFrom(LineInputs)
    \/ Micro
    \/ IoOk
    \/ IoFail

SpecLine == Init /\ [][NextLine]_vars

\* rectangles drawn into the buffer
NextRect ==
    \/ FillRectOf(RectInputs)
    \/ Micro
    \/ IoOk
    \/ IoFail

SpecRect == Init /\ [][NextRect]_vars

\* RGBA images drawn into the buffer, one over another
NextImage ==
    \/ DrawImageFrom(ImageInputs)
    \/ IoOk
    \/ IoFail

SpecImage == Init /\ [][NextImage]_vars

\* text written from where setCursor has put the cursor; the application sets the
\* cursor between its awaited calls
NextText ==
    \/ WriteString
    \/ Idle /\ SetCursor
    \/ Micro
    \/ IoOk
    \/ IoFail

SpecText == Init /\ [][NextText]_vars

\* every drawing method, called with arguments that reach over the edges
CallEdge ==
    \/ PlotFrom(OutsideInputs)
    \/ DrawLineFrom(EdgeLines)
    \/ FillRectOf(EdgeRects)
    \/ DrawImageFrom(EdgeImages)
    \/ DrawBitmapFrom(LongBitmaps)
    \/ WriteStringFrom(EdgeTexts)

\* each drawing method called without its sync argument, the calls awaited one after
\* another
CallSync ==
    \/ ClearDisplayFrom(NoSyncClears)
    \/ DrawPixelFrom(NoSyncPixels)
    \/ DrawLineFrom(NoSyncLines)
    \/ FillRectOf(NoSyncRects)
    \/ DrawBitmapFrom(NoSyncBitmaps)
    \/ WriteStringFrom(NoSyncTexts)
    \/ DrawImageFrom(NoSyncImages)

NextSync ==
    \/ CallSync
    \/ Micro
    \/ IoOk
    \/ IoReady
    \/ IoFail

SpecSync == Init /\ [][NextSync]_vars

NextEdge ==
    \/ CallEdge
    \/ Micro
    \/ IoOk
    \/ IoFail

SpecEdge == Init /\ [][NextEdge]_vars

\* an SH1106 of 128 columns: once the initialisation has ended, single columns are
\* written by drawPageCol and by the incremental flush
InitWide == Constructed(128, 32, FALSE, FALSE) /\ driver = "SH1106"

Initialised == task[InitTask].op = "_initialise" /\ task[InitTask].pc = "done"

NextCol ==
    \/ Initialised /\ DrawPageColFrom(PageColInputs)
    \/ Initialised /\ DrawPixelFrom(ColumnFlushes)
    \/ IoOk
    \/ IoReady

SpecCol == InitWide /\ [][NextCol]_vars

\* update() and synchronous drawPixel calls, one below and one above the threshold of the
\* full update, made once the initialisation has ended, with a controller that is busy at
\* most MaxBusy times in a wait.  The bus answers every status read and the event loop
\* runs every timeout that is due.
ReadyPixels == { << << <<0, 0, "1">> >>, TRUE >>, << RowPixels(ThresholdLen + 1), TRUE >> }

CallReady ==
    \/ Initialised /\ Update
    \/ Initialised /\ DrawPixelFrom(ReadyPixels)

RunReady ==
    \/ IoOk
    \/ IoReady
    \/ IoBusy
    \/ TimerFire
    \/ IoFail

NextReady == CallReady \/ RunReady

\* each drawing method called with sync = false
QuietClears == { <<FALSE>> }

QuietPixels == { << << <<3, 9, "0">> >>, FALSE >> }

QuietLines == { <<0, 0, 2, 1, "0", FALSE>> }

QuietRects == { <<1, 7, 1, 2, "0", FALSE>> }

QuietBitmaps == { << <<"0", "0", "0">>, FALSE >> }

QuietTexts == { <<WideFont, 1, <<"A">>, "1", FALSE, FALSE>> }

QuietImages == { <<Image2x2, 0, 0, FALSE>> }

CallQuiet ==
    \/ ClearDisplayFrom(QuietClears)
    \/ DrawPixelFrom(QuietPixels)
    \/ DrawLineFrom(QuietLines)
    \/ FillRectOf(QuietRects)
    \/ DrawBitmapFrom(QuietBitmaps)
    \/ WriteStringFrom(QuietTexts)
    \/ DrawImageFrom(QuietImages)

NextQuiet ==
    \/ CallQuiet
    \/ Micro
    \/ IoOk
    \/ IoFail

SpecQuiet == Init /\ [][NextQuiet]_vars

\* fillRect with widths and heights from 0 up
SmallRects ==
    { <<p[1], p[2], w, h, c, FALSE>> :
        p \in { <<2, 2>>, <<0, 0>> }, w \in {0, 1, 3}, h \in {0, 1, 3}, c \in {"0", "1"} }

NextSmall ==
    \/ FillRectOf(SmallRects)
    \/ Micro
    \/ IoOk
    \/ IoFail

SpecSmall == Init /\ [][NextSmall]_vars

\* drawPixel calls that overlap once the initialisation has ended, as from a timer
\* callback: one dark pixel flushed, another left to a later flush
OverlapPixels == { << << <<0, 0, "0">> >>, TRUE >>, << << <<5, 0, "0">> >>, FALSE >> }

NextOverlap ==
    \/ Initialised /\ DrawPixelFrom(OverlapPixels)
    \/ IoOk
    \/ IoReady
    \/ IoFail

SpecOverlap == InitBus /\ [][NextOverlap]_vars

SpecReady == Init /\ [][NextReady]_vars /\ WF_vars(IoReady \/ IoBusy \/ TimerFire)

\* short texts written one after another
NextSplit ==
    \/ WriteStringFrom(SplitInputs)
    \/ Micro
    \/ IoOk
    \/ IoFail

SpecSplit == Init /\ [][NextSplit]_vars

\* bitmaps drawn into the buffer, one over another
NextBitmap ==
    \/ DrawBitmapFrom(BitmapInputs)
    \/ IoOk
    \/ IoFail

SpecBitmap == Init /\ [][NextBitmap]_vars

-----------------------------------------------------------------------------
(* Oled.image: animations *)

\* image(x, y, file, font, false, false, true, wrapping): the file is there, nothing is
\* cleared; the call waits for the PNG to be parsed
\* resourceTracker is a constant of the module, so every Oled instance of the process
\* uses the same one.  "A" is the instance whose display is modelled here; of a second
\* instance "B" only the images its image() calls have loaded are kept (anim.other):
\* their intervals draw on B's display.
ImageAnimatedOn(o, image) ==
    /\ Alive
    /\ anim.images < MaxImages
    /\ ~anim.reset
    /\ anim' = [anim EXCEPT !.images = anim.images + 1,
                            !.pics = Append(anim.pics, image),
                            !.parsing = anim.parsing \cup {anim.images + 1},
                            !.other = IF o = "B" THEN anim.other \cup {anim.images + 1}
                                      ELSE anim.other]
    /\ UNCHANGED <<cursor, driver, WIDTH, HEIGHT, buffer, dirtyBytes, task, bus, pending,
                   micro, ram, dev, env, ghost>>

ImageAnimated == ImageAnimatedOn("A", AnimImage)

\* the 'parsed' callback of image number p: pdx = 1, pdy = -1, setInterval, timers.push
Parsed ==
    /\ Alive
    /\ ~MicrotaskPending
    /\ \E p \in anim.parsing :
          anim' = [anim EXCEPT !.parsing = anim.parsing \ {p},
                               !.pdx = 1, !.pdy = -1,
                               !.live = anim.live \cup {p},
                               !.timers = Append(anim.timers, p)]
    /\ UNCHANGED <<cursor, driver, WIDTH, HEIGHT, buffer, dirtyBytes, task, bus, pending,
                   micro, ram, dev, env, ghost>>

\* resourceTracker.clearAllTimers()
ClearAllTimers(a) ==
    [a EXCEPT !.live = a.live \ SeqToSet(a.timers), !.timers = <<>>]

\* image(x, y, file, font, false, true, ...): the reset branch; it returns at once
Reset ==
    /\ Alive
    /\ ~anim.reset
    /\ anim' = [ClearAllTimers(anim) EXCEPT !.pdx = 0, !.pdy = 0, !.reset = TRUE]
    /\ UNCHANGED <<cursor, driver, WIDTH, HEIGHT, buffer, dirtyBytes, task, bus, pending,
                   micro, ram, dev, env, ghost>>

\* _drawPseudo's first lines: start over for an image it has not seen
FrameInit(a, image) ==
    IF a.init \/ a.image # image
    THEN [a EXCEPT !.init = FALSE, !.image = image, !.x = 1, !.y = 1,
                   !.prevX = 1, !.prevY = 1, !.dx = a.pdx, !.dy = a.pdy]
    ELSE a

\* an interval fires: its callback calls _drawPseudo(_oled, false, image, pdx, pdy), which
\* runs up to the first drawPixel of fillRect(prevX, prevY, width, height, 0, false)
TickWithin(n) ==
    /\ ~MicrotaskPending
    /\ \E id \in anim.live \ anim.other :
          LET t == NextId
              a == FrameInit(anim, id)
              tr == [New("_drawPseudo", TRUE) EXCEPT !.timer = id]
          IN  BeginWith(t, BeginPixels(t, tr,
                               FillRectPixels(a.prevX, a.prevY, a.pics[id].width,
                                              a.pics[id].height, "0")), a, n)

Tick == TickWithin(MaxCalls)

InitAnim == Constructed(96, 16, TRUE, FALSE)

NextAnim ==
    \/ ImageAnimated
    \/ Parsed
    \/ Reset
    \/ Tick
    \/ RunBus

SpecAnim == InitAnim /\ [][NextAnim]_vars

\* images two pixels narrower and two pixels lower than the 96x16 display, opaque white:
\* their animations reach an edge within a few frames
WideImage == [width |-> 94, height |-> 1, data |-> [i \in 1..(94 * 4) |-> 255]]

TallImage == [width |-> 1, height |-> 14, data |-> [i \in 1..(14 * 4) |-> 255]]

\* the animation of one of these images; the interval fires again while a frame is still
\* running
NextBounce ==
    \/ anim.images = 0 /\ ImageAnimatedOn("A", WideImage)
    \/ anim.images = 0 /\ ImageAnimatedOn("A", TallImage)
    \/ Parsed
    \/ TickWithin(MaxFrames)
    \/ Micro
    \/ IoOk
    \/ IoReady

SpecBounce == InitAnim /\ [][NextBounce]_vars

\* two instances in one process: image() is called on either, animated or with reset
NextIso ==
    \/ ImageAnimatedOn("A", AnimImage)
    \/ ImageAnimatedOn("B", AnimImage)
    \/ Parsed
    \/ Reset
    \/ Tick
    \/ RunBus

SpecIso == InitAnim /\ [][NextIso]_vars

-----------------------------------------------------------------------------
(* Properties *)

\* the writes of user call t in the bus log
IsWrite(i, t) == bus[i].task = t /\ bus[i].kind # "read"

\* C1: while two calls are in progress, no bus write of one falls between two bus writes
\* of the other's flush
C1_SingleFlight ==
    \A t \in UserTasks, u \in UserTasks :
        t # u =>
            \A i \in DOMAIN bus, j \in DOMAIN bus, k \in DOMAIN bus :
                ~(i < j /\ j < k /\ IsWrite(i, t) /\ IsWrite(j, u) /\ IsWrite(k, t))

\* C2: no transaction of a drawing, flush or update call goes over the bus before
\* _initialise has sent the last batch of the initialisation sequence
C2_ReadyBeforeOperations == ~ghost.early

\* the call is inside _waitUntilReady: at the status read or at the timeout after it
Waiting(tr) == tr.pc \in {"ps_read", "pc_read", "up_read", "fi_read", "sc_read", "yield"}

\* C3: with a controller that is busy at every status read, _waitUntilReady stops polling
\* after a bounded number of reads and the call ends (with the timeout error)
C3_BusyPollEnds ==
    \A t \in UserTasks : Waiting(task[t]) ~> Finished(task[t])

\* a flush of call t is under way
InFlush(tr) == tr.path \in {"incr", "full"} /\ ~Finished(tr)

\* C4: when a bus read or write of a flush fails, the dirty set still holds every index
\* it held when the flush began, and the buffer is as it was
C4_FailureKeepsPending ==
    [][\A t \in UserTasks :
          (InFlush(task[t]) /\ task'[t].pc = "failed") =>
              /\ SeqToSet(task[t].d0) \subseteq SeqToSet(dirtyBytes')
              /\ buffer' = buffer]_vars

\* a flush of call t has run to its end
FlushDone(tr) == tr.path \in {"incr", "full"} /\ tr.pc = "done"

\* C5: once _updateDirtyBytes has completed, on either path, the dirty set is empty
C5_DirtyEmptyAfterFlush ==
    \A t \in UserTasks : FlushDone(task[t]) => dirtyBytes = <<>>

C5_BothPathsFlushed ==
    /\ ghost.flushed = {"incr", "full"}
    /\ \E t \in UserTasks : FlushDone(task[t]) /\ task[t].d0 # <<>>

\* C6: an incremental flush transmits the byte of every dirty index exactly once
C6_EachDirtyByteOnce ==
    \A t \in UserTasks :
        (task[t].path = "incr" /\ task[t].pc = "done") =>
            /\ SeqToSet(task[t].sent) = SeqToSet(task[t].d0)
            /\ Len(task[t].sent) = Cardinality(SeqToSet(task[t].d0))

\* C7: a flush of floor(totalBytes/7)+1 or more distinct dirty bytes takes the full-frame
\* path, a flush of 1 .. floor(totalBytes/7) distinct dirty bytes the incremental path
C7_ThresholdOnDistinctBytes ==
    \A t \in UserTasks :
        task[t].path \in {"incr", "full"} =>
            (task[t].path = "full" <=> Cardinality(SeqToSet(task[t].d0)) > BufLen \div 7)

\* C8: calls made one at a time from RAM = buffer: when a flush has completed, on either
\* path, the controller's RAM equals the buffer byte for byte
C8_FlushMakesRamEqualBuffer ==
    \A t \in UserTasks : FlushDone(task[t]) => ram = buffer

\* a frame of an animation is running
FrameRunning(tr) == tr.op = "_drawPseudo" /\ ~Finished(tr)

\* C9: at most one animation interval is active, and at most one frame runs at a time
C9_OneAnimationAtATime ==
    /\ Cardinality(anim.live) <= 1
    /\ Cardinality({t \in UserTasks : FrameRunning(task[t])}) <= 1

\* C10: once image(..., reset = true) has returned (and no animation is started after
\* it), no interval is left and no frame is running
C10_ResetStopsAnimations ==
    anim.reset =>
        /\ anim.live = {}
        /\ \A t \in UserTasks : ~FrameRunning(task[t])

\* C11: between turnOffDisplay and the next turnOnDisplay no drawing or update call
\* transmits anything: no write of such a call goes over the bus while the panel is off
C11_PowerOffGating == ~ghost.offWrite

\* C12: a call in which a bus read or write failed ends as a failure that its invoker
\* receives (and sends nothing more)
C12_TransportErrorsReachCaller ==
    \A t \in DOMAIN task : task[t].pc = "failed" => Awaited(t)

\* C13: constructing a display of a size the config table does not have throws to the
\* constructing caller, and nothing is submitted to the bus for it
C13_UnsupportedGeometryRefused ==
    ConfigMissing => env.thrown /\ bus = <<>>

\* C14: a startScroll or stopScroll call on SH1106 returns at once, submits no bus read
\* or write, and leaves the buffer, the dirty set and the cursor as they were
C14_Sh1106ScrollNoOp ==
    [][(driver = "SH1106" /\ env'.calls # env.calls
          /\ task'[NextId].op \in {"startScroll", "stopScroll"}) =>
              /\ Finished(task'[NextId])
              /\ bus' = LogAtStart
              /\ pending' = pending
              /\ buffer' = buffer
              /\ dirtyBytes' = dirtyBytes
              /\ cursor' = cursor]_vars

C14_Sh1106Scrolled ==
    /\ driver = "SH1106"
    /\ \E t \in UserTasks : task[t].op = "startScroll" /\ task[t].pc = "done"
    /\ dirtyBytes # <<>>
    /\ cursor # <<0, 0>>

\* C15: SSD1306.startScroll with a diagonal direction sends nothing: no write of such a
\* call is on the bus
C15_DiagonalScrollRejected ==
    \A i \in DOMAIN bus :
        LET tr == task[bus[i].task]
        IN  (tr.op = "startScroll" /\ tr.ps[1] \in {"left diagonal", "right diagonal"}) =>
                bus[i].kind = "read"

\* C16: in every write on the bus each command byte comes right after a control byte
\* 0x00 and each data byte right after a control byte 0x40, except that a full-frame
\* burst is one 0x40 and then the payload; a write starts with no other control byte
C16_BusFraming ==
    \A i \in DOMAIN bus :
        bus[i].kind \in {"cmd", "data"} =>
            LET w == Wire(bus[i])
                p == bus[i].bytes
                c == IF bus[i].kind = "cmd" THEN 0 ELSE 64
            IN  /\ w # <<>>
                /\ w[1] = c
                /\ IF bus[i].burst
                   THEN bus[i].kind = "data" /\ Tail(w) = p
                   ELSE /\ Len(w) = 2 * Len(p)
                        /\ \A k \in 1..Len(p) : w[2 * k - 1] = c /\ w[2 * k] = p[k]

C16_EveryKindOfWrite ==
    /\ ghost.flushed = {"incr", "full"}
    /\ \E i \in DOMAIN bus : bus[i].burst
    /\ \E i \in DOMAIN bus : bus[i].kind = "cmd"

\* the payload bytes of the writes of call t in the bus log, in order
RECURSIVE BytesFrom(_, _)
BytesFrom(i, t) ==
    IF i > Len(bus) THEN <<>>
    ELSE (IF bus[i].task = t /\ bus[i].kind # "read" THEN bus[i].bytes ELSE <<>>)
         \o BytesFrom(i + 1, t)

\* the first place from i on where block stands in s, 0 when there is none
RECURSIVE Find(_, _, _)
Find(s, block, i) ==
    IF i + Len(block) - 1 > Len(s) THEN 0
    ELSE IF SubSeq(s, i, i + Len(block) - 1) = block THEN i
    ELSE Find(s, block, i + 1)

\* the blocks stand in s one after another, in this order
RECURSIVE InOrder(_, _)
InOrder(s, blocks) ==
    IF blocks = <<>> THEN TRUE
    ELSE LET i == Find(s, Head(blocks), 1)
         IN  i > 0 /\ InOrder(Drop(s, i + Len(Head(blocks)) - 1), Tail(blocks))

\* the order the initialisation has to keep: off, clock divider, multiplex and its value,
\* offset, start line, charge pump on, segment remap, COM scan direction, COM pins and
\* their value, contrast, pre-charge, VCOM detect, normal display, on
InitOrder ==
    << <<DISPLAY_OFF>>, <<SET_DISPLAY_CLOCK_DIV>>,
       <<SET_MULTIPLEX, screenConfig.multiplex>>, <<SET_DISPLAY_OFFSET>>,
       IF driver = "SSD1306" THEN <<0>> ELSE <<SH_SET_START_LINE>>,
       IF driver = "SSD1306" THEN <<141, 20>> ELSE <<SH_CHARGE_PUMP, 139>>,
       <<SEG_REMAP>>, <<COM_SCAN_DEC>>, <<SET_COM_PINS, screenConfig.compins>>,
       <<SET_CONTRAST>>, <<SET_PRECHARGE>>, <<SET_VCOM_DETECT>>, <<NORMAL_DISPLAY>>,
       <<DISPLAY_ON>> >>

InitOrderKept(s) ==
    /\ s[1] = DISPLAY_OFF
    /\ s[Len(s)] = DISPLAY_ON
    /\ InOrder(s, InitOrder)

\* C17: the command bytes _initialise has sent, for either driver and each size of the
\* config table, begin with display-off, end with display-on and hold the opcodes of the
\* initialisation in the fixed order; so does the standalone SH1106 driver's sequence
C17_InitOrder ==
    (task[InitTask].op = "_initialise" /\ task[InitTask].pc = "done" /\ env.calls = 0) =>
        /\ InitOrderKept(BytesFrom(1, InitTask))
        /\ driver = "SH1106" => InitOrderKept(LegacyInitSeq)

C17_InitialisedLargest ==
    /\ task[InitTask].op = "_initialise"
    /\ task[InitTask].pc = "done"
    /\ env.calls = 0
    /\ Len(bus) = Len(InitBatches)
    /\ driver = "SH1106"
    /\ <<WIDTH, HEIGHT>> = <<128, 64>>

\* the transactions of call t in the bus log, and its writes among them
TxOf(t) == SelectSeq(bus, LAMBDA e : e.task = t)

WritesOf(t) == SelectSeq(bus, LAMBDA e : e.task = t /\ e.kind # "read")

\* C18: SSD1306.update() begins with a status read, sends the addressing-mode and the
\* clock-divider command, then the window commands 0x21 coloffset coloffset+W-1 0x22 0
\* H/8-1, then the W*H/8 bytes of the buffer as one burst, and nothing after it
C18_Ssd1306FullUpdate ==
    \A t \in UserTasks :
        (driver = "SSD1306" /\ task[t].op = "update" /\ task[t].pc = "done") =>
            LET w == WritesOf(t)
                n == Len(w)
            IN  /\ TxOf(t)[1].kind = "read"
                /\ n >= 2
                /\ w[n] = BufferBurst(t, buffer)
                /\ w[n - 1].kind = "cmd"
                /\ w[n - 1].bytes =
                      <<COLUMN_ADDR, screenConfig.coloffset, screenConfig.coloffset + WIDTH - 1,
                        PAGE_ADDR, 0, HEIGHT \div 8 - 1>>
                /\ \E k \in 1..(n - 2) :
                      w[k].kind = "cmd" /\ Find(w[k].bytes, <<MEMORY_MODE>>, 1) > 0
                /\ \E k \in 1..(n - 2) :
                      w[k].kind = "cmd" /\ Find(w[k].bytes, <<SET_DISPLAY_CLOCK_DIV>>, 1) > 0

\* C19: SH1106.update() sends for every page p of the panel an addressing triple that
\* begins with 0xB0 + p, followed at once by the W bytes of that page as data
C19_Sh1106FullUpdate ==
    \A t \in UserTasks :
        (driver = "SH1106" /\ task[t].op = "update" /\ task[t].pc = "done") =>
            LET w == WritesOf(t)
            IN  \A p \in 0..(HEIGHT \div 8 - 1) :
                    \E i \in 1..(Len(w) - 1) :
                        /\ w[i].kind = "cmd"
                        /\ Len(w[i].bytes) = 3
                        /\ w[i].bytes[1] = SH_PAGE_ADDR + p
                        /\ w[i + 1].kind = "data"
                        /\ w[i + 1].bytes = [k \in 1..WIDTH |-> buffer[p * WIDTH + k - 1]]

\* the writes of an incremental flush that carry ranges: all of them, but for the
\* addressing-mode batch SH1106 sends first
RangeWrites(t) == IF driver = "SH1106" THEN Tail(WritesOf(t)) ELSE WritesOf(t)

\* page and first column an addressing sequence names
AddressedPage(cmd) == IF driver = "SSD1306" THEN cmd[5] ELSE cmd[1] - SH_PAGE_ADDR

AddressedCol(cmd) ==
    IF driver = "SSD1306" THEN cmd[2]
    ELSE (cmd[3] - COLUMN_HIGH_START_ADDR) * 16 + cmd[2] - screenConfig.coloffset

\* the maximal runs of consecutive columns among the distinct dirty indices, by the
\* index each begins at
RunStarts(d) == {i \in SeqToSet(d) : i % WIDTH = 0 \/ ~Contains(d, i - 1)}

\* C20: an incremental flush sends each maximal run of consecutive distinct dirty columns
\* of a page as one addressing sequence for the run's page and first column and, right
\* after it, one data write with the run's buffer bytes; as many addressing sequences as
\* runs; no two ranges of a page touch or overlap
C20_PartialUpdateStructure ==
    \A t \in UserTasks :
        (task[t].path = "incr" /\ task[t].pc = "done") =>
            LET w == RangeWrites(t)
                n == Len(w) \div 2
                page(j) == AddressedPage(w[2 * j - 1].bytes)
                col(j) == AddressedCol(w[2 * j - 1].bytes)
                len(j) == Len(w[2 * j].bytes)
            IN  /\ Len(w) = 2 * n
                /\ n = Cardinality(RunStarts(task[t].d0))
                /\ \A j \in 1..n :
                      /\ w[2 * j - 1].kind = "cmd"
                      /\ w[2 * j].kind = "data"
                      /\ page(j) * WIDTH + col(j) \in RunStarts(task[t].d0)
                      /\ w[2 * j].bytes =
                            [k \in 1..len(j) |-> buffer[page(j) * WIDTH + col(j) + k - 1]]
                /\ \A j \in 1..n, k \in 1..n :
                      (j # k /\ page(j) = page(k) /\ col(j) <= col(k)) =>
                          col(j) + len(j) < col(k)

-----------------------------------------------------------------------------
(* The drawing core as functions of the buffer *)

\* the step is a call of method op with arguments args
Called(op, args) ==
    /\ env'.calls = env.calls + 1
    /\ task'[NextId].op = op
    /\ task'[NextId].ps = args

InRange(x, y) == x >= 0 /\ x < WIDTH /\ y >= 0 /\ y < HEIGHT

\* the colour values the documentation names for "on"
OnColors == {"1", "255", "true", "WHITE"}

\* C21: after drawPixel([x, y, c]) with (x, y) on the display, bit y mod 8 of
\* buffer[x + W * floor(y / 8)] is 1 when c is 1, 255, true or 'WHITE' and 0 when c is
\* 0, false or 'BLACK', and every other bit of the buffer is what it was.
C21_PixelRoundTrip ==
    [][\A el \in PixelInputs :
          (Called("drawPixel", el) /\ InRange(el[1], el[2])) =>
              \A i \in DOMAIN buffer, k \in 0..7 :
                  BitOf(buffer'[i], k) =
                      IF i = el[1] + WIDTH * (el[2] \div 8) /\ k = el[2] % 8
                      THEN (IF el[3] \in OnColors THEN 1 ELSE 0)
                      ELSE BitOf(buffer[i], k)]_vars

\* drawPixel([3, 9, 'WHITE']) has lit a pixel of a cleared buffer
C21_PixelLit ==
    /\ task[1].op = "drawPixel"
    /\ task[1].ps = <<3, 9, "WHITE">>
    /\ buffer[3 + WIDTH] = 2

C23_DirtyOnlyOnMutation ==
    [][\A el \in PixelInputs :
          (Called("drawPixel", el) /\ InRange(el[1], el[2])) =>
              /\ buffer' = buffer => dirtyBytes' = dirtyBytes
              /\ \A i \in DOMAIN dirtyBytes' :
                     Contains(dirtyBytes, dirtyBytes'[i])
                         \/ buffer'[dirtyBytes'[i]] # buffer[dirtyBytes'[i]]]_vars

Max(a, b) == IF a > b THEN a ELSE b

\* the pixels a drawLine call plots, in order: the one its first step plots, then those
\* it still has to plot
PlottedBy(c, tr) == << <<c[1], c[2], c[5]>> >> \o tr.px

\* C24: drawLine(x0, y0, x1, y1) plots (x0, y0) first and (x1, y1) last, plots exactly
\* max(|x1 - x0|, |y1 - y0|) + 1 pixels, each at most 1 away from the one before in x and
\* in y, and when |x1 - x0| = |y1 - y0| the k-th pixel is k - 1 steps along the diagonal.
C24_LineShape ==
    [][\A c \in LineInputs :
          Called("drawLine", c) =>
              LET pts == LinePoints(c[1], c[2], c[3], c[4])
                  n == Max(Abs(c[3] - c[1]), Abs(c[4] - c[2])) + 1
                  sx == IF c[1] < c[3] THEN 1 ELSE -1
                  sy == IF c[2] < c[4] THEN 1 ELSE -1
              IN  /\ PlottedBy(c, task'[NextId]) =
                         [i \in DOMAIN pts |-> <<pts[i][1], pts[i][2], c[5]>>]
                  /\ Len(pts) = n
                  /\ pts[1] = <<c[1], c[2]>>
                  /\ pts[n] = <<c[3], c[4]>>
                  /\ \A i \in 1..(n - 1) :
                         /\ Abs(pts[i + 1][1] - pts[i][1]) <= 1
                         /\ Abs(pts[i + 1][2] - pts[i][2]) <= 1
                  /\ Abs(c[3] - c[1]) = Abs(c[4] - c[2]) =>
                         \A i \in 1..n :
                             pts[i] = <<c[1] + sx * (i - 1), c[2] + sy * (i - 1)>>]_vars

\* drawLine(0, 0, 5, 5, 0) has returned: the six pixels (i, i) are dark and no other
C24_DiagonalDrawn ==
    /\ task[1].op = "drawLine"
    /\ task[1].pc = "done"
    /\ task[1].ps = <<0, 0, 5, 5, "0", FALSE>>
    /\ \A i \in 0..(BufLen - 1) : buffer[i] = IF i <= 5 THEN 255 - 2 ^ i ELSE 255

\* the colour of pixel (x, y) in the buffer: 1 for on, 0 for off
PixelAt(buf, x, y) == BitOf(buf[x + WIDTH * (y \div 8)], y % 8)

\* C25: when fillRect(x, y, w, h, c) with w >= 1 and h >= 1 has returned, every pixel
\* (px, py) of the display with x <= px < x + w and y <= py < y + h has colour c.
C25_RectFilled ==
    \A c \in RectInputs :
        (task[1].op = "fillRect" /\ task[1].pc = "done" /\ task[1].ps = c) =>
            \A px \in c[1]..(c[1] + c[3] - 1), py \in c[2]..(c[2] + c[4] - 1) :
                InRange(px, py) =>
                    PixelAt(buffer, px, py) = IF c[5] \in OnColors THEN 1 ELSE 0

\* fillRect(2, 2, 3, 4, 0) has returned on a buffer with every other pixel on
C25_DarkRectDrawn ==
    /\ task[1].op = "fillRect"
    /\ task[1].pc = "done"
    /\ task[1].ps = <<2, 2, 3, 4, "0", FALSE>>
    /\ \A i \in 0..(BufLen - 1) : buffer[i] = IF i \in 2..4 THEN 195 ELSE 255

\* C26: drawRGBAImage(image, dx, dy) leaves the bit of every display pixel
\* (dx + x, dy + y) whose source pixel (x, y) has alpha 0 as it was before the call,
\* whether it was on or off.
C26_TransparentKeepsPixel ==
    [][\A c \in ImageInputs :
          Called("drawRGBAImage", c) =>
              \A x \in 0..(c[1].width - 1), y \in 0..(c[1].height - 1) :
                  (/\ ImgAt(c[1], (c[1].width * y + x) * 4 + 3) = 0
                   /\ InRange(c[2] + x, c[3] + y)) =>
                      PixelAt(buffer', c[2] + x, c[3] + y)
                          = PixelAt(buffer, c[2] + x, c[3] + y)]_vars

\* the 2x2 image has been drawn at (0, 6) over a ground its own black pixel at (0, 7)
\* had darkened: under its transparent pixel (0, 7) stays dark, and the opaque black
\* one beside it has darkened (1, 7)
C26_DrawnOverDarkGround ==
    /\ task[1].op = "drawRGBAImage"
    /\ task[1].ps = <<Image2x2, 0, 6, FALSE>>
    /\ PixelAt(buffer, 0, 7) = 0
    /\ PixelAt(buffer, 1, 7) = 0
    /\ PixelAt(buffer, 0, 6) = 0

\* the step is one of a writeString call with arguments c
TextStep(c) ==
    /\ task'[1].op = "writeString"
    /\ task'[1].ps = c
    /\ task'[1] # task[1]

\* C27: with wrap enabled and the cursor starting at x <= WIDTH - font.width, writeString
\* never leaves the cursor at an x beyond WIDTH - font.width, and from one character to
\* the next the cursor's y stays or grows by exactly one line height,
\* font.height * size + LINESPACING.
C27_WrapKeepsCursor ==
    [][\A c \in TextInputs :
          (TextStep(c) /\ c[5] /\ task'[1].txt.start[1] <= WIDTH - c[1].width) =>
              /\ cursor'[1] <= WIDTH - c[1].width
              /\ cursor'[2] - cursor[2] \in {0, LineHeight(c)}]_vars

\* C28: when writeString has drawn a character, every pixel of the display under a set
\* bit of the character has the colour the caller passed: on for 1 or 255, off for 0.
C28_TextInCallersColour ==
    \A c \in TextInputs :
        (/\ task[1].op = "writeString"
         /\ task[1].ps = c
         /\ task[1].pc = "px"
         /\ task[1].px = <<>>) =>
            LET tx == task[1].txt
                ch == WordAt(tx.words, tx.w)[tx.i + 1]
                bits == ReadCharBytes(FindCharBuf(c[1], ch), c[1].height)
            IN  \A i \in 0..(Len(bits) - 1), j \in 0..(c[1].height - 1), d \in 0..(c[2] - 1), e \in 0..(c[2] - 1) :
                    LET x == tx.cursor[1] + i * c[2] + d
                        y == tx.cursor[2] + j * c[2] + e
                    IN  (bits[i + 1][j + 1] = 1 /\ InRange(x, y)) =>
                            PixelAt(buffer, x, y) = IF IsOff(c[4]) THEN 0 ELSE 1

\* the call passed no sync argument
OmitsSync(tr) ==
    \/ tr.op = "clearDisplay" /\ ~Given(tr.ps, 1)
    \/ tr.op \in {"drawPixel", "drawBitmap"} /\ ~Given(tr.ps, 2)
    \/ tr.op = "drawRGBAImage" /\ ~Given(tr.ps, 4)
    \/ tr.op \in {"drawLine", "fillRect", "writeString"} /\ ~Given(tr.ps, 6)

\* C29: when a call of clearDisplay, drawPixel, drawLine, fillRect, drawBitmap,
\* writeString or drawRGBAImage that passed no sync argument has completed, the dirty
\* set is empty and (SSD1306) the display RAM holds what the buffer holds.
C29_DefaultSyncIsTrue ==
    \A t \in UserTasks :
        (OmitsSync(task[t]) /\ task[t].pc = "done") =>
            /\ dirtyBytes = <<>>
            /\ driver = "SSD1306" => ram = buffer

\* C30: when update() has completed, the display RAM holds what the buffer holds and
\* the dirty set is empty, so that a flush that follows has nothing to transmit.
C30_UpdateSyncs ==
    \A t \in UserTasks :
        (task[t].op = "update" /\ task[t].pc = "done") =>
            /\ ram = buffer
            /\ dirtyBytes = <<>>

-----------------------------------------------------------------------------
(* Instances, equivalences and frame conditions *)

\* the animation intervals of instance B that are running
OtherLive == anim.live \cap anim.other

\* C31: no operation on instance A (image() animated or with reset = true, a frame of A's
\* animation, a bus completion of A's calls) changes the animation timers of instance B:
\* a reset on A does not stop an animation running on B.
C31_InstanceIsolation ==
    [][(ImageAnimatedOn("A", AnimImage) \/ Reset \/ Tick \/ RunBus) => OtherLive' = OtherLive]_vars

\* the image drawn pixel by pixel, from source pixel n on in row-major order: drawPixel
\* for every pixel that is not transparent, lit when R | G | B is not 0
RECURSIVE PixelByPixel(_, _, _, _, _)
PixelByPixel(st, image, dx, dy, n) ==
    IF n >= image.width * image.height THEN st
    ELSE LET x == n % image.width
             y == n \div image.width
             lit == ImgAt(image, 4 * n) # 0 \/ ImgAt(image, 4 * n + 1) # 0
                      \/ ImgAt(image, 4 * n + 2) # 0
             st1 == IF ImgAt(image, 4 * n + 3) = 0 THEN st
                    ELSE DrawPixelOne(st, <<dx + x, dy + y, IF lit THEN "true" ELSE "false">>)
         IN  PixelByPixel(st1, image, dx, dy, n + 1)

\* C32: the buffer after drawRGBAImage(image, dx, dy, false) is the buffer that drawPixel
\* calls for every source pixel with alpha # 0 give, lit iff R | G | B # 0, and every
\* byte the call changed is in the dirty set afterwards.
C32_ImageAsPixels ==
    [][\A c \in ImageInputs :
          Called("drawRGBAImage", c) =>
              /\ buffer' = PixelByPixel(Mem, c[1], c[2], c[3], 0).buffer
              /\ \A i \in DOMAIN buffer :
                    buffer'[i] # buffer[i] => Contains(dirtyBytes', i)]_vars

\* the ten-row image has been drawn from row 7 down: its black pixels darkened row 7 in
\* page 0 and rows 10 and 13 in page 1, and its last row fell off the display
C32_ImageOverPageEdge ==
    /\ task[1].op = "drawRGBAImage"
    /\ task[1].ps = <<Image1x10, 0, 7, FALSE>>
    /\ buffer[0] = 127
    /\ buffer[WIDTH] = 219
    /\ dirtyBytes = <<0, WIDTH>>

\* drawPixel([i mod W, floor(i / W), pixels[i]], false) for i = lo .. hi - 1, in order
RECURSIVE PixelByIndex(_, _, _, _)
PixelByIndex(st, pixels, lo, hi) ==
    IF hi <= lo THEN st
    ELSE IF hi = lo + 1
    THEN DrawPixelOne(st, <<lo % WIDTH, lo \div WIDTH, pixels[lo + 1]>>)
    ELSE LET mid == (lo + hi) \div 2
             a == PixelByIndex(st, pixels, lo, mid)
         IN  IF Len(a.dirtyBytes) >= 0 THEN PixelByIndex(a, pixels, mid, hi) ELSE a

\* C33: the buffer and the set of dirty indices after drawBitmap(pixels, false) are those
\* that drawPixel([i mod W, floor(i / W), pixels[i]], false) for i = 0 .. length - 1
\* gives, and the entries from index W * H on change nothing.
C33_BitmapAsPixels ==
    [][\A c \in BitmapInputs :
          Called("drawBitmap", c) =>
              LET ref == PixelByIndex(Mem, c[1], 0, Len(c[1]))
                  cut == PixelByIndex(Mem, c[1], 0, Min(Len(c[1]), WIDTH * HEIGHT))
              IN  /\ buffer' = ref.buffer
                  /\ SeqToSet(dirtyBytes') = SeqToSet(ref.dirtyBytes)
                  /\ buffer' = cut.buffer
                  /\ SeqToSet(dirtyBytes') = SeqToSet(cut.dirtyBytes)]_vars

\* a bitmap of a row and two pixels has been drawn: pixels (0, 0) and (0, 1) are dark,
\* (1, 0) and (1, 1) lit, and the bytes of the whole row are marked
C33_SecondRowDrawn ==
    /\ task[1].op = "drawBitmap"
    /\ task[1].ps = <<Bits(WIDTH + 2, 0), FALSE>>
    /\ buffer[0] = 252
    /\ buffer[1] = 255
    /\ SeqToSet(dirtyBytes) = 0..(WIDTH - 1)

\* C34: when writeString has returned, the characters its loops came to, in order
\* (characters drawn and line feeds), are the characters of the text it was given.
C34_SplitRoundTrip ==
    \A c \in SplitInputs :
        (task[1].op = "writeString" /\ task[1].ps = c /\ task[1].pc = "done") =>
            task[1].txt.seen = c[3]

\* the addressing triple b selects the page and the column of the page-addressed
\* controller, whose column bias is 2
Encodes(b, page, col) ==
    /\ b[1] = 176 + page
    /\ b[2] \in 0..15
    /\ b[3] \in 16..24
    /\ (b[3] % 16) * 16 + b[2] = col + 2

\* C35: for every column of the display, the page, low and high bytes that drawPageCol
\* sends and those that the incremental flush sends satisfy low in 0 .. 0x0f, high in
\* 0x10 .. 0x18, 16 * (high & 0x0f) + low = col + 2 and page byte = 0xB0 + page; so the
\* two send the same triple.
C35_ColumnEncoding ==
    \A i \in DOMAIN bus :
        LET tr == task[bus[i].task]
            b == bus[i].bytes
            last == \A j \in DOMAIN bus : j > i => bus[j].task # bus[i].task
        IN  /\ (tr.op = "drawPageCol" /\ bus[i].kind = "cmd") =>
                   /\ Len(b) = 5
                   /\ Encodes(SubSeq(b, 3, 5), tr.ps[1], tr.ps[2])
            /\ (tr.op = "drawPixel" /\ tr.pc = "fi_cmd" /\ last) =>
                   /\ Len(b) = 3
                   /\ Encodes(b, tr.cur.page, tr.cur.start)

\* drawPageCol has written the last column, 127, in page 3: low 1, high 0x18
C35_LastColumnAddressed ==
    /\ task[1].op = "drawPageCol"
    /\ task[1].pc = "done"
    /\ task[1].ps = <<3, 127, 255>>
    /\ \E i \in DOMAIN bus :
          /\ bus[i].task = 1
          /\ bus[i].bytes = <<SET_PAGE_ADDRESSING, PAGE_ADDRESSING_MODE, 179, 1, 24>>

-----------------------------------------------------------------------------
(* The busy handshake *)

\* the status reads of update() and of a flush
Handshake == {"up_read", "fi_read"}

\* the call is update() or has entered a non-empty flush
Flushing(tr) == tr.op = "update" \/ tr.path \in {"incr", "full"}

\* the call is in the wait of update() or of a flush
Polling(tr) == tr.pc \in Handshake \/ (tr.pc = "yield" /\ tr.ret \in Handshake)

\* the busy flag as the two paths define it: bit 7 on the SSD1306, bit 6 on the SH1106
FlagSet(b) == BitOf(b, IF driver = "SSD1306" THEN 7 ELSE 6) = 1

\* a status read of the handshake returns b: busy, the call is at the timeout and nothing
\* is sent; not busy, the call has left the wait
ReadAnswered(b) ==
    (ReadI2C(b) /\ task[Head(pending).task].pc \in Handshake) =>
        LET t == Head(pending).task
        IN  IF FlagSet(b)
            THEN /\ task'[t].pc = "yield"
                 /\ bus' = bus
                 /\ pending' = Tail(pending)
            ELSE ~Polling(task'[t])

\* the first write of call t is submitted by the step of a status read that returned
\* with the flag clear
FirstWriteAfterReady(t) ==
    (/\ Flushing(task'[t])
     /\ \A i \in DOMAIN bus : ~IsWrite(i, t)
     /\ \E i \in DOMAIN bus' : bus'[i].task = t /\ bus'[i].kind # "read") =>
        \E b \in StatusBytes : ~FlagSet(b) /\ ReadI2C(b) /\ Head(pending).task = t

\* the timeout after a busy answer is followed by the same status read
YieldThenRead(t) ==
    (Polling(task[t]) /\ task[t].pc = "yield" /\ task'[t] # task[t]) =>
        /\ task'[t].pc = task[t].ret
        /\ pending' = Append(pending, ReadTx(t))

-----------------------------------------------------------------------------
(* Drawing during a flush *)

\* C37: when a flush completes while a drawPixel call with sync = false was made during
\* it, every index that was in the dirty array is still there or the controller holds the
\* byte the buffer holds
C37_NoDirtyByteLost ==
    [][\A t \in UserTasks, u \in UserTasks :
          (/\ InFlush(task[t])
           /\ FlushDone(task'[t])
           /\ u > t
           /\ task[u].op = "drawPixel"
           /\ ~task[u].sync) =>
              \A i \in SeqToSet(dirtyBytes) :
                  i \in SeqToSet(dirtyBytes') \/ ram'[i] = buffer'[i]]_vars

-----------------------------------------------------------------------------
(* Drawing without a flush *)

\* the place of sync among the arguments of each drawing method
SyncArg ==
    [clearDisplay |-> 1, drawPixel |-> 2, drawBitmap |-> 2, drawRGBAImage |-> 4,
     drawLine |-> 6, fillRect |-> 6, writeString |-> 6]

\* the call is a drawing method called with sync = false
Unsynced(tr) ==
    /\ tr.op \in DOMAIN SyncArg
    /\ Given(tr.ps, SyncArg[tr.op])
    /\ tr.ps[SyncArg[tr.op]] = FALSE

\* C38: a drawing method called with sync = false submits no bus read and no bus write,
\* and none of its steps changes anything but the buffer, the dirty array and, in
\* writeString, the cursor
C38_UnsyncedIsBusSilent ==
    /\ [](\A t \in UserTasks : Unsynced(task[t]) => TxOf(t) = <<>>)
    /\ [][\A t \in UserTasks :
            (Unsynced(task'[t]) /\ task'[t] # task[t]) =>
                /\ pending' = pending
                /\ <<ram, dev, driver, WIDTH, HEIGHT, anim>>' =
                       <<ram, dev, driver, WIDTH, HEIGHT, anim>>
                /\ task'[t].op # "writeString" => cursor' = cursor]_vars

\* writeString with sync = false has drawn its glyph and moved the cursor, and the bus has
\* carried nothing for it
C38_TextDrawnUnsent ==
    /\ task[1].op = "writeString"
    /\ task[1].pc = "done"
    /\ Unsynced(task[1])
    /\ cursor # task[1].txt.start
    /\ dirtyBytes # <<>>
    /\ ram # buffer
    /\ TxOf(1) = <<>>

-----------------------------------------------------------------------------
(* The frame of fillRect *)

\* the pixel is inside the rectangle of the call's arguments
InsideRect(c, px, py) ==
    /\ c[1] <= px /\ px < c[1] + c[3]
    /\ c[2] <= py /\ py < c[2] + c[4]

\* C39: no step of fillRect(x, y, w, h, c) changes a pixel outside x <= px < x + w,
\* y <= py < y + h; with w = 0 or h = 0 it changes none
C39_RectFrame ==
    [][\A t \in UserTasks :
          (task'[t].op = "fillRect" /\ task'[t] # task[t]) =>
              \A px \in 0..(WIDTH - 1), py \in 0..(HEIGHT - 1) :
                  ~InsideRect(task'[t].ps, px, py) =>
                      PixelAt(buffer', px, py) = PixelAt(buffer, px, py)]_vars

-----------------------------------------------------------------------------
(* The animation's position *)

\* the image of the frame call tr
FrameImage(tr) == anim.pics[tr.timer]

\* C40: for an image narrower and lower than the display, whenever a frame of _drawPseudo
\* is running or has ended, also when frames overlap, the position it draws at lies in
\* 0 .. WIDTH - image.width and 0 .. HEIGHT - image.height, and the end of each frame
\* moves the position by exactly one pixel in x and one in y
C40_AnimationOnScreen ==
    /\ [](\A t \in UserTasks :
            task[t].op = "_drawPseudo" =>
                /\ 0 <= anim.x /\ anim.x <= WIDTH - FrameImage(task[t]).width
                /\ 0 <= anim.y /\ anim.y <= HEIGHT - FrameImage(task[t]).height)
    /\ [][\A t \in UserTasks :
            (FrameRunning(task[t]) /\ task'[t].op = "_drawPseudo" /\ task'[t].pc = "done") =>
                /\ Abs(anim'.x - anim.x) = 1
                /\ Abs(anim'.y - anim.y) = 1]_vars

\* two frames of the wide image's animation run at once after it has turned at the
\* right edge and come to the left one
C40_TurnedWhileOverlapping ==
    /\ \A t \in {1, 2} : FrameRunning(task[t]) /\ FrameImage(task[t]) = WideImage
    /\ anim.x = 0
    /\ anim.dx = -1

====
